---- MODULE Spec2Model ----
(***************************************************************************)
(* Model of the FirebaseAPI request pipeline and store client.             *)
(*                                                                         *)
(*   SpecRL  the token bucket (RateLimiter) and the middleware stack of    *)
(*           app/api/main.py that every inbound request walks through.     *)
(*   SpecFB  the AsyncFirebase singleton: lazy initialisation by           *)
(*           concurrent callers under a deployment that changes.           *)
(*   SpecOps the store operations (read, write, update, delete,            *)
(*           ensure_default_entry) of concurrent callers.                  *)
(*   SpecED  ensure_default_entry called repeatedly by one task.           *)
(*   SpecApp the authentication of a request in the application as main.py *)
(*           assembles it: tokens, route dependencies, the admin check.    *)
(*   SpecGate the same application with AuthMiddleware registered.         *)
(*   SpecBoot process startup (lifespan) up to the first request.          *)
(*   SpecReg the register handler under concurrent requests.               *)
(*   SpecRevoke the application while user records are removed.            *)
(*   SpecCancel requests whose handlers mutate the store, and their        *)
(*           cancellation.                                                 *)
(*   SpecLogin the application with its login endpoints.                   *)
(*   SpecActive the application serving disabled accounts.                 *)
(*   SpecPw  the forgot-password and reset-password handlers.              *)
(*   SpecData the generic data routes on the users subtree.                *)
(*   SpecExclude AuthMiddleware built with and without exclude_paths.      *)
(*                                                                         *)
(* Time is counted in clock ticks; per/rate seconds are TicksPerToken      *)
(* ticks.  Token counts are Python floats in the source; here they are     *)
(* integers counted in "ulps", ONE ulps making one token, and every float  *)
(* multiplication whose operands are not exact may come out one ulp off.   *)
(***************************************************************************)
EXTENDS Integers, Sequences, FiniteSets, TLC

\* ------------------------------------------------------------------ bounds
Rate == 1            \* RateLimiter.rate: tokens per period
TicksPerToken == 2   \* clock ticks in per/rate seconds
Prec == 2            \* ulps in 1/Per of a token
NKeys == 2           \* distinct client addresses
NReq == 2            \* requests in flight at once
MaxTime == 4         \* last clock tick explored

Per == Rate * TicksPerToken    \* RateLimiter.per, in ticks
ONE == Per * Prec              \* one token, in ulps
MaxCalls == Rate + 2           \* requests admitted to the stack in one run

Keys == 1..NKeys
Reqs == 1..NReq
NoBucket == [tokens |-> -1, last_refill |-> -1]

Min(a, b) == IF a <= b THEN a ELSE b

VARIABLES
  now,            \* time.time(), in ticks
  token_bucket,   \* RateLimiter.token_bucket: key -> bucket (NoBucket: key absent)
  hist,           \* per key, the is_allowed calls made so far: time, tokens
                  \* held after the refill, the value returned, and how many
                  \* other requests of the key were waiting to make the call
  rpc,            \* per request, its position in the middleware stack
  rkey,           \* per request, request.client.host
  rpath,          \* per request, the kind of route it addresses
  rstatus,        \* per request, the status code of its response (0: none yet)
  rallowed,       \* per request, what is_allowed returned for it
  rauth,          \* per request, whether the route's authentication dependency ran
  rhandler        \* per request, whether the route handler ran

rlVars == <<now, token_bucket, hist, rpc, rkey, rpath, rstatus, rallowed, rauth, rhandler>>

VARIABLES
  fb,             \* the AsyncFirebase instance: firebase_api_key, cred, _initialized
  apps,           \* firebase_admin._apps is non-empty
  ENVIRONMENT,    \* CONFIG.ENVIRONMENT
  key_file,       \* AsyncFirebase.key_file is a non-empty path
  certFile,       \* the key file as the three candidate locations resolve it
  appOk,          \* firebase_admin.initialize_app can succeed
  store,          \* the remote database: path -> set of keys of the mapping stored
  call,           \* per caller, the operation in progress and its outcome
  nops,           \* operations started so far
  loads,          \* _load_credentials calls so far
  appcalls,       \* firebase_admin.initialize_app calls so far
  envfail,        \* some _initialize_firebase call has failed on the deployment
                  \* (no usable credential, or the app registration failing)
  edlog,          \* the ensure_default_entry calls completed, in order
  instances       \* the AsyncFirebase objects object.__new__ has made so far

fbVars == <<fb, apps, ENVIRONMENT, key_file, certFile, appOk, store, call, nops,
            loads, appcalls, envfail, edlog, instances>>

VARIABLES
  utcnow,         \* datetime.utcnow(), in ticks
  issued,         \* the token create_access_token returned last (NoTok: none yet)
  users,          \* the records of the users subtree of the database
  gateOn,         \* AuthMiddleware is registered on the application
  areq            \* the request in the authentication pipeline and its response

auVars == <<utcnow, issued, users, gateOn, areq>>

VARIABLES
  boot,           \* the lifespan of the application: where startup is, and what
                  \* happened in it
  reg,            \* per registration request, its position in the register handler
  nreg,           \* registration requests received so far
  gone            \* the emails whose record was removed from the users subtree:
                  \* so far, and when the request in the pipeline arrived

xVars == <<boot, reg, nreg, gone>>

VARIABLES
  ADMIN_DISABLED,         \* CONFIG.ADMIN_DISABLED
  exclude_paths,          \* AuthMiddleware.exclude_paths
  login,                  \* the login request: what it sent and what it was answered
  password_reset_tokens,  \* routes/auth.py password_reset_tokens: the entries held
  pwreq,                  \* per password request, its position in its handler
  dcall                   \* per data request, its position in the data route

yVars == <<ADMIN_DISABLED, exclude_paths, login, password_reset_tokens, pwreq, dcall>>
vars == <<rlVars, fbVars, auVars, xVars, yVars>>

\* ------------------------------------------------------------ RateLimiter

GetTokensEmpty(tb, key, t) ==
  IF tb[key] = NoBucket THEN [tokens |-> 0, last_refill |-> t] ELSE tb[key]
\* _get_tokens: the bucket of key, created full on first sight
GetTokens(tb, key, t) ==
  IF tb[key] = NoBucket THEN [tokens |-> Rate * ONE, last_refill |-> t] ELSE tb[key]

\* new_tokens = time_passed * (rate / per), exactly, in ulps
NewTokens(time_passed) == time_passed * Rate * Prec

\* the results a float multiplication of time_passed by rate/per can give:
\* exact when time_passed is 0.0, else within one ulp of the exact product
RoundErr(time_passed) == IF time_passed = 0 THEN {0} ELSE {-1, 0, 1}

CapNone(t) == t
\* min(self.rate, ...)
Cap(t) == Min(Rate * ONE, t)

\* _refill_bucket, with err the rounding error of the multiplication
RefillBucket(bucket, t, err) ==
  LET time_passed == t - bucket.last_refill
      new_tokens == NewTokens(time_passed) + err
  IN  [tokens |-> Cap(bucket.tokens + new_tokens), last_refill |-> t]

HasTokenAny(bucket) == bucket.tokens >= 0
\* bucket["tokens"] >= 1
HasToken(bucket) == bucket.tokens >= ONE

ConsumeNothing(bucket) == bucket
\* bucket["tokens"] -= 1
Consume(bucket) == [bucket EXCEPT !.tokens = @ - ONE]

\* is_allowed: the bucket it leaves behind and the value it returns.  The
\* coroutine has no suspension point, so on the event loop it runs as one step.
IsAllowedRefilled(tb, key, t, err) == RefillBucket(GetTokens(tb, key, t), t, err)
IsAllowedResult(tb, key, t, err) == HasToken(IsAllowedRefilled(tb, key, t, err))
IsAllowedBucket(tb, key, t, err) ==
  LET b == IsAllowedRefilled(tb, key, t, err)
  IN  IF HasToken(b) THEN Consume(b) ELSE b

BucketedShared(tb, key, bucket) == [k \in Keys |-> bucket]
\* self.token_bucket[key]: each key has a dict of its own, and is_allowed
\* updates the one of its key in place
Bucketed(tb, key, bucket) == [tb EXCEPT ![key] = bucket]

\* ------------------------------------------------------- middleware stack
\* main.py registers CORSMiddleware, RateLimitMiddleware and then the
\* log_requests http middleware; Starlette runs the last one added first:
\* log_requests -> RateLimitMiddleware -> CORSMiddleware -> router.
\* AuthMiddleware is not registered; routes authenticate through their
\* Depends(get_current_user) dependency.
Paths == {"health", "protected"}

RECURSIVE SumLen(_, _)
SumLen(h, ks) == IF ks = {} THEN 0
                 ELSE LET k == CHOOSE x \in ks : TRUE IN Len(h[k]) + SumLen(h, ks \ {k})
\* the is_allowed calls made so far
Calls == SumLen(hist, Keys)

\* a request arrives; log_requests logs it and awaits call_next
Arrive(r, key, path) ==
  /\ rpc[r] = "idle"
  /\ Calls + Cardinality({q \in Reqs : rpc[q] = "rate_limit"}) < MaxCalls
  /\ rpc' = [rpc EXCEPT ![r] = "rate_limit"]
  /\ rkey' = [rkey EXCEPT ![r] = key]
  /\ rpath' = [rpath EXCEPT ![r] = path]
  /\ rstatus' = [rstatus EXCEPT ![r] = 0]
  /\ rallowed' = [rallowed EXCEPT ![r] = FALSE]
  /\ rauth' = [rauth EXCEPT ![r] = FALSE]
  /\ rhandler' = [rhandler EXCEPT ![r] = FALSE]
  /\ UNCHANGED <<now, token_bucket, hist>>

DispatchPassAlways(allowed) == "call_next"
\* RateLimitMiddleware.dispatch: where the request goes after is_allowed
DispatchTarget(allowed) == IF allowed THEN "call_next" ELSE "done"

\* RateLimitMiddleware.dispatch up to its first suspension
Dispatch(r) ==
  /\ rpc[r] = "rate_limit"
  /\ \E err \in RoundErr(now - GetTokens(token_bucket, rkey[r], now).last_refill) :
       LET key == rkey[r]
           refilled == IsAllowedRefilled(token_bucket, key, now, err)
           allowed == IsAllowedResult(token_bucket, key, now, err)
       IN  /\ token_bucket' = Bucketed(token_bucket, key, IsAllowedBucket(token_bucket, key, now, err))
           /\ hist' = [hist EXCEPT ![key] = Append(@,
                 [t |-> now, before |-> refilled.tokens, ok |-> allowed,
                  conc |-> Cardinality({q \in Reqs \ {r} : rpc[q] = "rate_limit" /\ rkey[q] = key})])]
           /\ rallowed' = [rallowed EXCEPT ![r] = allowed]
           /\ rpc' = [rpc EXCEPT ![r] = DispatchTarget(allowed)]
           /\ rstatus' = [rstatus EXCEPT ![r] = IF allowed THEN 0 ELSE 429]
  /\ UNCHANGED <<now, rkey, rpath, rauth, rhandler>>

\* call_next: CORS and routing; a protected route first runs its
\* authentication dependency, which answers 401 or lets the handler run
RouteAuth(r, valid) ==
  /\ rpc[r] = "call_next"
  /\ rpath[r] = "protected"
  /\ rauth' = [rauth EXCEPT ![r] = TRUE]
  /\ rpc' = [rpc EXCEPT ![r] = IF valid THEN "handler" ELSE "done"]
  /\ rstatus' = [rstatus EXCEPT ![r] = IF valid THEN 0 ELSE 401]
  /\ UNCHANGED <<now, token_bucket, hist, rkey, rpath, rallowed, rhandler>>

\* a public route has no authentication dependency
RoutePublic(r) ==
  /\ rpc[r] = "call_next"
  /\ rpath[r] = "health"
  /\ rpc' = [rpc EXCEPT ![r] = "handler"]
  /\ UNCHANGED <<now, token_bucket, hist, rkey, rpath, rstatus, rallowed, rauth, rhandler>>

\* the route handler runs and produces the response
Handler(r) ==
  /\ rpc[r] = "handler"
  /\ rhandler' = [rhandler EXCEPT ![r] = TRUE]
  /\ rstatus' = [rstatus EXCEPT ![r] = 200]
  /\ rpc' = [rpc EXCEPT ![r] = "done"]
  /\ UNCHANGED <<now, token_bucket, hist, rkey, rpath, rallowed, rauth>>

\* the response has been sent (log_requests logs its status code on the way
\* out); the slot is free for the next request
Recycle(r) ==
  /\ rpc[r] = "done"
  /\ rpc' = [rpc EXCEPT ![r] = "idle"]
  /\ rkey' = [rkey EXCEPT ![r] = 1]
  /\ rpath' = [rpath EXCEPT ![r] = "health"]
  /\ rstatus' = [rstatus EXCEPT ![r] = 0]
  /\ rallowed' = [rallowed EXCEPT ![r] = FALSE]
  /\ rauth' = [rauth EXCEPT ![r] = FALSE]
  /\ rhandler' = [rhandler EXCEPT ![r] = FALSE]
  /\ UNCHANGED <<now, token_bucket, hist>>

\* the clock advances
Tick ==
  /\ now < MaxTime
  /\ now' = now + 1
  /\ UNCHANGED <<token_bucket, hist, rpc, rkey, rpath, rstatus, rallowed, rauth, rhandler>>

\* ---------------------------------------------------------- AsyncFirebase
NCallers == 2        \* tasks that use the store client at once
MaxOps == 2          \* operations started in one run

Callers == 1..NCallers
Fields == {"a", "b"}                 \* keys a stored mapping can have
Values == SUBSET Fields              \* {} is the empty mapping; the store holds
                                     \* no node for it (ref.get gives None)
Args == {{}, {"a"}}                  \* mappings the callers pass
Seeded == {{}, {"b"}}                \* what the database holds at process start
StorePaths == {"users"}              \* paths db.reference accepts
BadPaths == {"us#ers"}               \* paths it rejects with ValueError
AllPaths == StorePaths \cup BadPaths
KeyKinds == {"empty", "valid", "malformed"}
FileKinds == {"absent", "valid", "malformed"}
Ops == {"initialize", "read", "write", "update", "delete", "ensure"}
\* a call: pc, the operation and its arguments, the body in progress (phase),
\* the value returned (res), whether an exception reached the caller (raised),
\* the exception that ended the last body (exc), and whether the client was
\* initialized when the operation was called (ready0)
Idle == [pc |-> "idle", op |-> "none", phase |-> "none", path |-> "users", val |-> {},
         res |-> "none", raised |-> FALSE, exc |-> "none", ready0 |-> FALSE]

\* _load_credentials: "cert" when a certificate was built, else the exception
LoadCredentials(st) ==
  IF st.firebase_api_key # "empty" /\ ENVIRONMENT # "localhost"
  THEN IF st.firebase_api_key = "valid" THEN "cert" ELSE "ValueError"
  ELSE IF key_file
       THEN IF certFile = "absent" THEN "FileNotFoundError"
            ELSE IF certFile = "valid" THEN "cert" ELSE "ValueError"
       ELSE "ValueError"

NeedsInitAlways(st, a) == TRUE
NeedsInitNoCred(st, a) == st.cred = "None"
\* not firebase_admin._apps and not self._initialized
NeedsInit(st, a) == ~a /\ ~st.initialized

AfterAppFailurePoisoned(st) == [st EXCEPT !.cred = "cert", !.initialized = TRUE]
\* the instance when firebase_admin.initialize_app raised: the credential
\* stays loaded, _initialized is not set
AfterAppFailure(st) == [st EXCEPT !.cred = "cert"]

\* the instance when firebase_admin.initialize_app returned
AfterAppSuccess(st) == [st EXCEPT !.cred = "cert", !.initialized = TRUE]

\* _initialize_firebase: the instance and firebase_admin._apps it leaves, the
\* exception it raises ("none": it returns), the calls it made, and whether
\* it failed on the deployment.  Every await in it is on a coroutine that
\* never suspends (the log wrappers and _load_credentials), so it runs as one
\* step of the event loop.  initialize_app raises ValueError when the default
\* app is already registered.
InitializeFirebase(st, a) ==
  IF ~NeedsInit(st, a)
  THEN [fb |-> st, apps |-> a, exc |-> "none", loads |-> 0, appcalls |-> 0, envfail |-> FALSE]
  ELSE LET loaded == IF st.cred = "None" THEN LoadCredentials(st) ELSE "cert"
           nl == IF st.cred = "None" THEN 1 ELSE 0
       IN  IF loaded # "cert"
           THEN [fb |-> st, apps |-> a, exc |-> loaded, loads |-> nl, appcalls |-> 0,
                 envfail |-> TRUE]
           ELSE IF ~appOk \/ a
                THEN [fb |-> AfterAppFailure(st), apps |-> a, exc |-> "ValueError",
                      loads |-> nl, appcalls |-> 1, envfail |-> ~appOk]
                ELSE [fb |-> AfterAppSuccess(st), apps |-> TRUE, exc |-> "none",
                      loads |-> nl, appcalls |-> 1, envfail |-> FALSE]

ExceptFirebaseErrors(e) == e \in {"FirebaseError", "ValueError"}
\* except Exception: every failure of initialization or transport is an Exception
ExceptException(e) == TRUE

\* the value read/write/update/delete return from their except clause: the
\* empty mapping, or False
Sentinel(kind) == IF kind = "read" THEN "empty" ELSE "False"

\* what read returns for the data ref.get gave: {} for None, else the data
ReadResult(data) == IF data = {} THEN "empty" ELSE "value"

\* the call record of an operation whose body of kind `kind` (read, write,
\* update, delete) ended with exception e
Failed(c, kind, e) ==
  IF ExceptException(e)
  THEN [c EXCEPT !.pc = "done", !.res = Sentinel(kind), !.exc = e]
  ELSE [c EXCEPT !.pc = "done", !.raised = TRUE, !.exc = e]

\* get_reference up to its first suspension: _initialize_firebase, then the
\* wait for db.reference on a worker thread
EnterBody(c, kind, r) ==
  IF r.exc # "none" THEN Failed(c, kind, r.exc)
  ELSE [c EXCEPT !.pc = "ref", !.phase = kind]

\* ensure_default_entry after its read returned: write the default when the
\* data is empty (r is the _initialize_firebase of that write)
EnsureAfterRead(c, read, r) ==
  IF read = "empty" THEN EnterBody(c, "write", r)
  ELSE [c EXCEPT !.pc = "done", !.res = "True"]

\* the first initialization an operation runs, and for ensure_default_entry
\* the one its write runs when the read already failed there
Init1 == InitializeFirebase(fb, apps)
Init2 == InitializeFirebase(Init1.fb, Init1.apps)

\* a task that has no operation in progress calls initialize() or a store
\* operation, which runs to its first suspension
Start(c, op, path, val) ==
  /\ call[c].pc \in {"idle", "done"}
  /\ nops < MaxOps
  /\ op \in {"initialize", "read", "delete"} => val = {}
  /\ op = "initialize" => path \in StorePaths
  /\ nops' = nops + 1
  /\ LET c0 == [Idle EXCEPT !.op = op, !.path = path, !.val = val, !.ready0 = fb.initialized]
         twice == op = "ensure" /\ Init1.exc # "none"
         last == IF twice THEN Init2 ELSE Init1
         c1 == IF op = "initialize"
               THEN IF Init1.exc = "none" THEN [c0 EXCEPT !.pc = "done"]
                    ELSE [c0 EXCEPT !.pc = "done", !.raised = TRUE, !.exc = Init1.exc]
               ELSE IF op = "ensure"
               THEN LET rd == EnterBody(c0, "read", Init1)
                    IN  IF rd.pc = "done" /\ ~rd.raised
                        THEN EnsureAfterRead([rd EXCEPT !.res = "none", !.exc = "none"], rd.res, Init2)
                        ELSE rd
               ELSE EnterBody(c0, op, Init1)
     IN  /\ call' = [call EXCEPT ![c] = c1]
         /\ fb' = last.fb
         /\ apps' = last.apps
         /\ loads' = loads + Init1.loads + (IF twice THEN Init2.loads ELSE 0)
         /\ appcalls' = appcalls + Init1.appcalls + (IF twice THEN Init2.appcalls ELSE 0)
         /\ envfail' = (envfail \/ Init1.envfail \/ (twice /\ Init2.envfail))
  /\ UNCHANGED <<ENVIRONMENT, key_file, certFile, appOk, store, instances>>

\* what follows the end of an operation body of the call c: the read of
\* ensure_default_entry goes on to the write, anything else returns
Continue(c, body) ==
  IF c.op = "ensure" /\ c.phase = "read" /\ body.pc = "done" /\ ~body.raised
  THEN EnsureAfterRead([body EXCEPT !.res = "none", !.exc = "none", !.pc = "io"], body.res, Init1)
  ELSE body

\* db.reference validates the path: a Reference, or ValueError
ReferenceOk(path) == path \in StorePaths

\* db.reference returns on the worker thread, or raises
Reference(c) ==
  /\ call[c].pc = "ref"
  /\ LET ok == ReferenceOk(call[c].path)
         body == IF ok THEN [call[c] EXCEPT !.pc = "io"]
                 ELSE Failed(call[c], call[c].phase, "ValueError")
         next == Continue(call[c], body)
         reinit == ~ok /\ call[c].op = "ensure" /\ call[c].phase = "read"
                       /\ ExceptException("ValueError")
     IN  /\ call' = [call EXCEPT ![c] = next]
         /\ fb' = IF reinit THEN Init1.fb ELSE fb
         /\ apps' = IF reinit THEN Init1.apps ELSE apps
         /\ loads' = loads + (IF reinit THEN Init1.loads ELSE 0)
         /\ appcalls' = appcalls + (IF reinit THEN Init1.appcalls ELSE 0)
         /\ envfail' = (envfail \/ (reinit /\ Init1.envfail))
  /\ UNCHANGED <<ENVIRONMENT, key_file, certFile, appOk, store, nops, instances>>

\* the effect of a completed remote call on the node at a path
Remote(kind, old, val) ==
  IF kind = "write" THEN val
  ELSE IF kind = "update" THEN old \cup val
  ELSE IF kind = "delete" THEN {}
  ELSE old

\* ref.update rejects an empty mapping before any request is sent
Rejected(kind, val) == kind = "update" /\ val = {}

\* ref.get / ref.set / ref.update / ref.delete returns on the worker thread,
\* or raises
Io(c, ok) ==
  /\ call[c].pc = "io"
  /\ LET kind == call[c].phase
         path == call[c].path
         good == ok /\ ~Rejected(kind, call[c].val)
         body == IF good
                 THEN IF kind = "read"
                      THEN [call[c] EXCEPT !.pc = "done", !.res = ReadResult(store[path])]
                      ELSE [call[c] EXCEPT !.pc = "done", !.res = "True"]
                 ELSE Failed(call[c], kind, IF ok THEN "ValueError" ELSE "FirebaseError")
         next == Continue(call[c], body)
         reinit == call[c].op = "ensure" /\ kind = "read" /\ body.pc = "done"
                      /\ ~body.raised /\ body.res = "empty"
     IN  /\ call' = [call EXCEPT ![c] = next]
         /\ store' = IF good THEN [store EXCEPT ![path] = Remote(kind, @, call[c].val)] ELSE store
         /\ fb' = IF reinit THEN Init1.fb ELSE fb
         /\ apps' = IF reinit THEN Init1.apps ELSE apps
         /\ loads' = loads + (IF reinit THEN Init1.loads ELSE 0)
         /\ appcalls' = appcalls + (IF reinit THEN Init1.appcalls ELSE 0)
         /\ envfail' = (envfail \/ (reinit /\ Init1.envfail))
  /\ UNCHANGED <<ENVIRONMENT, key_file, certFile, appOk, nops, instances>>

NewAlways(n) == n + 1
\* __new__: an object is made only while cls._instance is None, that is
\* while none has been made
New(n) == IF n = 0 THEN 1 ELSE n

\* AsyncFirebase(firebase_api_key): __new__ returns the one instance, and
\* __init__ tests the class attribute AsyncFirebase._initialized, which no
\* code assigns (_initialize_firebase sets the attribute on the instance)
ClassInitialized == FALSE
Construct(key) ==
  /\ instances' = New(instances)
  /\ fb' = IF ~ClassInitialized
           THEN [fb EXCEPT !.firebase_api_key = key, !.cred = "None"]
           ELSE fb
  /\ UNCHANGED <<apps, ENVIRONMENT, key_file, certFile, appOk, store, call, nops,
                 loads, appcalls, envfail>>

\* the deployment changes: the key file is put in place, replaced or removed,
\* the app registration starts or stops failing
SetCertFile(kind) ==
  /\ certFile # kind
  /\ certFile' = kind
  /\ UNCHANGED <<fb, apps, ENVIRONMENT, key_file, appOk, store, call, nops,
                 loads, appcalls, envfail, instances>>

SetAppOk(b) ==
  /\ appOk # b
  /\ appOk' = b
  /\ UNCHANGED <<fb, apps, ENVIRONMENT, key_file, certFile, store, call, nops,
                 loads, appcalls, envfail, instances>>

\* ------------------------------------------------------ authentication
TicksPerSec == 2     \* clock ticks in a second
MaxClock == 4        \* last tick of datetime.utcnow() explored

\* ACCESS_TOKEN_EXPIRE_MINUTES = 10, in ticks
DefaultTtl == 10 * 60 * TicksPerSec

\* expires_delta: None, or a timedelta of d ticks
NoTtl == [given |-> FALSE, d |-> 0]
Ttls == {NoTtl} \cup [given : {TRUE}, d : {0, 1}]

\* the claims passed as `data`: sub and user_id ("None": the key is absent)
AliceClaims == [sub |-> "alice@example.com", user_id |-> "u1"]
RootClaims == [sub |-> "root@example.com", user_id |-> "u2"]
AdminClaims == [sub |-> "admin@example.com", user_id |-> "admin"]
Claims == {AliceClaims, RootClaims, AdminClaims,
           [sub |-> "None", user_id |-> "u1"],
           [sub |-> "mallory@example.com", user_id |-> "u3"]}

\* the records the users subtree can hold: generated id -> record
Alice == [uid |-> "u1", email |-> "alice@example.com", username |-> "alice", is_admin |-> FALSE]
Root == [uid |-> "u2", email |-> "root@example.com", username |-> "root", is_admin |-> TRUE]
UserDbs == {{}, {Alice, Root}}

\* a token: its payload, the key that signed it, and the datetime `expire`
\* it was issued with (in ticks; exp is that datetime in whole seconds)
NoTok == [sub |-> "None", user_id |-> "None", exp |-> -1, key |-> "none",
          expire |-> -1, ttl |-> NoTtl]

\* `if expires_delta:` - a timedelta is true unless it is timedelta(0)
Truthy(ttl) == ttl.given /\ ttl.d # 0

\* expire = datetime.utcnow() + expires_delta, or + 10 minutes
Expire(ttl, t) == IF Truthy(ttl) THEN t + ttl.d ELSE t + DefaultTtl

\* jose turns a datetime claim into whole seconds (timegm of utctimetuple)
Seconds(t) == t \div TicksPerSec

\* create_access_token(data, expires_delta) called at tick t
CreateAccessToken(data, ttl, t) ==
  [sub |-> data.sub, user_id |-> data.user_id, exp |-> Seconds(Expire(ttl, t)),
   key |-> "SECRET_KEY", expire |-> Expire(ttl, t), ttl |-> ttl]

\* tokens made outside the process: any claims, any expiry, another secret
Forged == {[sub |-> c.sub, user_id |-> c.user_id, exp |-> Seconds(MaxClock) + 1,
            key |-> "other", expire |-> -1, ttl |-> NoTtl] : c \in {AliceClaims, AdminClaims}}

SignatureAny(tok) == TRUE
\* HS256 verification of the signature against CONFIG.SECRET_KEY
SignatureOk(tok) == tok.key = "SECRET_KEY"

ExpiredNever(exp, t) == FALSE
\* jose _validate_exp: exp < now, now in whole seconds, no leeway
Expired(exp, t) == exp < Seconds(t)

\* jwt.decode(token, CONFIG.SECRET_KEY, algorithms=[ALGORITHM]) at tick t:
\* "ok" (the payload), or the JWTError raised
Decode(tok, t) ==
  IF tok = NoTok \/ ~SignatureOk(tok) THEN "JWTError"
  ELSE IF Expired(tok.exp, t) THEN "ExpiredSignatureError"
  ELSE "ok"

\* request paths, as their segments
Api(rest) == <<"api", "v1">> \o rest
HealthPath == Api(<<"health">>)
PublicAuth == {Api(<<"auth", x>>) : x \in {"login", "token", "register", "forgot-password"}}
LoginJsonPath == Api(<<"auth", "login-json">>)
ResetPasswordPath == Api(<<"auth", "reset-password">>)
DocPaths == {<<"docs">>, <<"redoc">>, <<"openapi.json">>}
StaticPath == <<"static", "app.css">>
UserMePath == Api(<<"auth", "user", "me">>)
ListUsersPath == Api(<<"data", "users">>)
OpenPaths == {Api(<<"auth", x>>) : x \in {"check-admin", "test", "test-firebase"}}
ReqPaths == {HealthPath, LoginJsonPath, ResetPasswordPath, StaticPath, UserMePath, ListUsersPath}
              \cup PublicAuth \cup DocPaths \cup OpenPaths

\* the dependency a route declares: "none", get_current_active_user
\* ("active") or get_current_admin_user ("admin"); "noroute" when no route
\* of the application matches the path
DepOf(path) ==
  IF path = ListUsersPath THEN "admin"
  ELSE IF path = UserMePath THEN "active"
  ELSE IF path = StaticPath THEN "noroute"
  ELSE "none"

\* the handler reads the store: list_users, check_admin, test_firebase
HandlerReads(path) ==
  path \in {ListUsersPath, Api(<<"auth", "check-admin">>), Api(<<"auth", "test-firebase">>)}

\* responses
Resp(status, body, www) == [status |-> status, body |-> body, www |-> www]
NoResp == Resp(0, "", FALSE)
Gate401 == Resp(401, "error: Not authenticated: Authentication credentials were not provided or are invalid", TRUE)
OAuth401 == Resp(401, "Not authenticated", TRUE)
Cred401 == Resp(401, "Could not validate credentials", TRUE)
Inactive400 == Resp(400, "Inactive user", FALSE)
Admin403 == Resp(403, "Not enough permissions. Admin privileges required.", FALSE)
NotFound404 == Resp(404, "Not Found", FALSE)
Ok200 == Resp(200, "ok", FALSE)

\* AuthMiddleware.dispatch: the paths it lets through unauthenticated
public_paths == PublicAuth \cup {HealthPath} \cup DocPaths
is_public_route(path) ==
  path \in public_paths \/ (Len(path) >= 2 /\ path[1] \in {"static", "public"})

\* the module's PUBLIC_PATHS list
PUBLIC_PATHS == DocPaths \cup PublicAuth \cup {HealthPath, <<"favicon.ico">>, <<"health">>}

\* AuthMiddleware.__init__: self.exclude_paths = exclude_paths or PUBLIC_PATHS
\* (None and the empty list both give PUBLIC_PATHS)
AuthMiddlewareInit(given) == IF given = {} THEN PUBLIC_PATHS ELSE given

\* AuthMiddleware.dispatch for a header of kind hdr carrying tok, at tick t:
\* the response it returns itself, or NoResp when it calls call_next
Gate(path, hdr, tok, t) ==
  IF is_public_route(path) THEN NoResp
  ELSE IF hdr # "bearer" THEN Gate401
  ELSE IF Decode(tok, t) # "ok" THEN Gate401
  ELSE IF tok.sub = "None" THEN Gate401
  ELSE NoResp

\* User(id=..., email=..., username=..., is_active=...): the model has no
\* is_active field and the keyword is dropped; disabled and is_admin keep
\* their defaults
NoUser == [id |-> "None", email |-> "None", username |-> "None", disabled |-> FALSE,
           is_admin |-> FALSE]
MakeUser(id, email, username) ==
  [id |-> id, email |-> email, username |-> username, disabled |-> FALSE, is_admin |-> FALSE]

\* CONFIG.ADMIN_EMAIL, CONFIG.ADMIN_USERNAME
ConfigAdmin == MakeUser("admin", "admin@example.com", "admin")

IsReservedNever(uid) == FALSE
\* user_id == "admin"
IsReserved(uid) == uid = "admin"

\* the first record of users_data whose email is the subject, if any
Matches(data, email) == {u \in data : u.email = email}

RequireAdminNever(user) == FALSE
\* get_current_admin_user: `if not current_user.is_admin` raises 403
RequireAdminFails(user) == ~user.is_admin

\* get_current_active_user, then get_current_admin_user where the route asks
\* for it: the response raised, or NoResp when the handler may run
AfterIdentity(dep, user) ==
  IF user.disabled THEN Inactive400
  ELSE IF dep = "admin" /\ RequireAdminFails(user) THEN Admin403
  ELSE NoResp

\* the request: where it is in the pipeline (pc), what it carries, the
\* response, whether its handler ran, the identity get_current_user returned,
\* what jwt.decode gave there and when, the store reads of the dependencies
\* and of the handler, the admin flag of the record or reserved id the
\* token names, and the lines AuthMiddleware wrote to the log for it
IdleReq == [pc |-> "idle", path |-> HealthPath, hdr |-> "none", tok |-> NoTok,
            resp |-> NoResp, ran |-> FALSE, user |-> NoUser, decoded |-> "none",
            at |-> -1, depreads |-> 0, readok |-> FALSE, hreads |-> 0, flag |-> FALSE,
            audit |-> {}]

HeaderKinds == {"none", "malformed", "bearer"}

\* the tokens a client can send: the one it was issued, one made elsewhere,
\* or a string that is no token
Presentable == {issued} \cup Forged \cup {NoTok}

\* a request reaches the application
AuthArrive(path, hdr, tok) ==
  /\ areq.pc = "idle"
  /\ tok = (IF hdr = "bearer" THEN tok ELSE NoTok)
  /\ areq' = [IdleReq EXCEPT !.path = path, !.hdr = hdr, !.tok = tok,
                             !.pc = IF gateOn THEN "gate" ELSE "route"]
  /\ UNCHANGED <<utcnow, issued, users, gateOn>>

\* the lines AuthMiddleware.dispatch writes to the log: the warning
\* "Unauthorized access attempt to {path}" before each 401 it returns, and
\* nothing on the two branches that return call_next
GateLog(path, hdr, tok, t) ==
  IF Gate(path, hdr, tok, t) = Gate401
  THEN {[level |-> "warning", path |-> path, outcome |-> "Unauthorized access attempt"]}
  ELSE {}

\* AuthMiddleware.dispatch
GateDispatch ==
  /\ areq.pc = "gate"
  /\ LET g == Gate(areq.path, areq.hdr, areq.tok, utcnow)
         lines == GateLog(areq.path, areq.hdr, areq.tok, utcnow)
     IN  areq' = IF g = NoResp THEN [areq EXCEPT !.pc = "route", !.audit = lines]
                 ELSE [areq EXCEPT !.pc = "done", !.resp = g, !.audit = lines]
  /\ UNCHANGED <<utcnow, issued, users, gateOn>>

\* oauth2_scheme (OAuth2PasswordBearer): the 401 it raises when the
\* Authorization header is absent or its scheme is not bearer
Oauth2Scheme(hdr) == IF hdr # "bearer" THEN OAuth401 ELSE NoResp

\* the request with identity `user` resolved: the checks that follow
Resolved(req, user, flag) ==
  LET a == AfterIdentity(DepOf(req.path), user)
  IN  IF a = NoResp THEN [req EXCEPT !.pc = "handler", !.user = user, !.flag = flag]
      ELSE [req EXCEPT !.pc = "done", !.user = user, !.flag = flag, !.resp = a]

\* the router: the route's dependencies up to the store read of
\* get_current_user (oauth2_scheme, jwt.decode, the reserved admin id)
RouteStep ==
  /\ areq.pc = "route"
  /\ LET dep == DepOf(areq.path)
         d == Decode(areq.tok, utcnow)
         seen == [areq EXCEPT !.decoded = d, !.at = utcnow]
     IN  areq' =
           IF dep = "noroute" THEN [areq EXCEPT !.pc = "done", !.resp = NotFound404]
           ELSE IF dep = "none" THEN [areq EXCEPT !.pc = "handler"]
           ELSE IF Oauth2Scheme(areq.hdr) # NoResp
                THEN [areq EXCEPT !.pc = "done", !.resp = Oauth2Scheme(areq.hdr)]
           ELSE IF d # "ok" THEN [seen EXCEPT !.pc = "done", !.resp = Cred401]
           ELSE IF areq.tok.sub = "None" \/ areq.tok.user_id = "None"
                THEN [seen EXCEPT !.pc = "done", !.resp = Cred401]
           ELSE IF IsReserved(areq.tok.user_id) THEN Resolved(seen, ConfigAdmin, TRUE)
           ELSE [seen EXCEPT !.pc = "read"]
  /\ UNCHANGED <<utcnow, issued, users, gateOn>>

\* firebase.read("users") returns to get_current_user: the subtree, or {}
\* when the read failed
ReadUsers(ok) ==
  /\ areq.pc = "read"
  /\ LET data == IF ok THEN users ELSE {}
         m == Matches(data, areq.tok.sub)
         got == [areq EXCEPT !.depreads = @ + 1, !.readok = ok]
     IN  areq' =
           IF m = {} THEN [got EXCEPT !.pc = "done", !.resp = Cred401]
           ELSE LET rec == CHOOSE u \in m : TRUE
                IN  Resolved(got, MakeUser(areq.tok.user_id, areq.tok.sub, rec.username),
                             rec.is_admin)
  /\ UNCHANGED <<utcnow, issued, users, gateOn>>

\* the route handler runs and answers
HandlerRun ==
  /\ areq.pc = "handler"
  /\ areq' = [areq EXCEPT !.pc = "done", !.ran = TRUE, !.resp = Ok200,
                          !.hreads = IF HandlerReads(areq.path) THEN 1 ELSE 0]
  /\ UNCHANGED <<utcnow, issued, users, gateOn>>

\* the response is sent
AuthRecycle ==
  /\ areq.pc = "done"
  /\ areq' = IdleReq
  /\ UNCHANGED <<utcnow, issued, users, gateOn>>

\* between two requests, a login handler or any caller creates a token
Issue(data, ttl) ==
  /\ areq.pc = "idle"
  /\ issued' = CreateAccessToken(data, ttl, utcnow)
  /\ issued' # issued
  /\ UNCHANGED <<utcnow, users, gateOn, areq>>

AuthTick ==
  /\ utcnow < MaxClock
  /\ utcnow' = utcnow + 1
  /\ UNCHANGED <<issued, users, gateOn, areq>>

\* no request and no token yet
AUIdle ==
  /\ utcnow = 0
  /\ issued = NoTok
  /\ users = {}
  /\ gateOn = FALSE
  /\ areq = IdleReq

AUStart ==
  /\ utcnow = 0
  /\ issued = NoTok
  /\ users \in UserDbs
  /\ areq = IdleReq

\* ------------------------------------------------------------ cancellation
\* a route handler calls a mutation of the store client and waits for it
HandlerStore(r, op, val) ==
  /\ rpc[r] = "handler"
  /\ r \in Callers
  /\ Start(r, op, "users", val)
  /\ rpc' = [rpc EXCEPT ![r] = "store"]
  /\ UNCHANGED <<now, token_bucket, hist, rkey, rpath, rstatus, rallowed, rauth, rhandler, edlog>>

\* the operation has returned: the handler answers 200, or 500 when the
\* operation returned False
HandlerReturn(r) ==
  /\ rpc[r] = "store"
  /\ call[r].pc = "done"
  /\ rhandler' = [rhandler EXCEPT ![r] = TRUE]
  /\ rstatus' = [rstatus EXCEPT ![r] = IF call[r].res = "True" THEN 200 ELSE 500]
  /\ rpc' = [rpc EXCEPT ![r] = "done"]
  /\ UNCHANGED <<now, token_bucket, hist, rkey, rpath, rallowed, rauth, fbVars>>

UnwindRefund(bucket) == [bucket EXCEPT !.tokens = @ + ONE]
\* RateLimitMiddleware.dispatch has no except or finally around call_next:
\* CancelledError leaves through it, the bucket stays as is_allowed left it
Unwind(bucket) == bucket

\* a store operation whose task is cancelled while it waits for the worker
\* thread: CancelledError is no Exception, so the except clause of the
\* operation does not catch it and it reaches the caller
Abandoned(c) ==
  IF c.pc \in {"ref", "io"}
  THEN [c EXCEPT !.pc = "done", !.raised = TRUE, !.exc = "CancelledError"]
  ELSE c

\* the client disconnects and the task of an admitted request is cancelled
\* at the await it is suspended in.  A remote call already handed to a
\* worker thread is not interrupted: it may still be applied to the store.
Cancel(r, applied) ==
  /\ rpc[r] \in {"call_next", "handler", "store"}
  /\ applied => /\ rpc[r] = "store"
                /\ call[r].pc = "io"
                /\ call[r].phase \in {"write", "update", "delete"}
                /\ ~Rejected(call[r].phase, call[r].val)
  /\ store' = IF applied
              THEN [store EXCEPT ![call[r].path] = Remote(call[r].phase, @, call[r].val)]
              ELSE store
  /\ call' = IF rpc[r] = "store" THEN [call EXCEPT ![r] = Abandoned(@)] ELSE call
  /\ token_bucket' = [token_bucket EXCEPT ![rkey[r]] = Unwind(@)]
  /\ rpc' = [rpc EXCEPT ![r] = "done"]
  /\ rstatus' = [rstatus EXCEPT ![r] = 0]
  /\ UNCHANGED <<now, hist, rkey, rpath, rallowed, rauth, rhandler>>
  /\ UNCHANGED <<fb, apps, ENVIRONMENT, key_file, certFile, appOk, nops, loads,
                 appcalls, envfail, edlog, instances>>

\* ------------------------------------------------- startup, registration
\* the record lifespan passes to ensure_default_entry under the key "admin"
AdminRecord == [uid |-> "admin", email |-> ConfigAdmin.email,
                username |-> ConfigAdmin.username, is_admin |-> TRUE]

\* startup: where lifespan is, whether _initialize_firebase raised in it,
\* whether every remote call it made succeeded, and whether a request has
\* been accepted since
BootIdle == [pc |-> "import", initfailed |-> FALSE, reachable |-> TRUE, served |-> FALSE]

\* lifespan up to its first suspension: _initialize_firebase, then
\* ensure_default_entry("users", {"admin": ...}) as far as the wait for
\* ref.get.  Its `except Exception` logs what the try block raised and
\* falls through to the yield.  FastAPI is given lifespan=lifespan, so the
\* handlers registered with on_event("startup") (startup_event) are not run.
LifespanEnter ==
  /\ boot.pc = "import"
  /\ LET r == InitializeFirebase(fb, apps)
     IN  /\ fb' = r.fb
         /\ apps' = r.apps
         /\ loads' = loads + r.loads
         /\ appcalls' = appcalls + r.appcalls
         /\ envfail' = (envfail \/ r.envfail)
         /\ boot' = IF r.exc # "none"
                    THEN [boot EXCEPT !.pc = "serving", !.initfailed = TRUE]
                    ELSE [boot EXCEPT !.pc = "read"]
  /\ UNCHANGED <<ENVIRONMENT, key_file, certFile, appOk, store, call, nops, edlog, instances>>
  /\ UNCHANGED <<auVars, reg, nreg, gone, yVars>>

\* the read of ensure_default_entry returns: the users subtree, or {} when
\* the remote call failed; `if not data` goes on to the write
LifespanRead(ok) ==
  /\ boot.pc = "read"
  /\ LET data == IF ok THEN users ELSE {}
     IN  boot' = [boot EXCEPT !.pc = IF data = {} THEN "write" ELSE "serving",
                              !.reachable = @ /\ ok]
  /\ UNCHANGED <<fbVars, auVars, reg, nreg, gone, yVars>>

\* the write of ensure_default_entry returns: ref.set replaced the users
\* subtree by the default mapping, or failed; lifespan then reaches its yield
LifespanWrite(ok) ==
  /\ boot.pc = "write"
  /\ users' = IF ok THEN {AdminRecord} ELSE users
  /\ boot' = [boot EXCEPT !.pc = "serving", !.reachable = @ /\ ok]
  /\ UNCHANGED <<fbVars, utcnow, issued, gateOn, areq, reg, nreg, gone, yVars>>

\* startup is complete and the server takes a request
Accept ==
  /\ boot.pc = "serving"
  /\ ~boot.served
  /\ boot' = [boot EXCEPT !.served = TRUE]
  /\ UNCHANGED <<fbVars, auVars, reg, nreg, gone, yVars>>

NRegs == 2           \* registration requests in flight at once
MaxRegs == 3         \* registration requests received in one run

RegReqs == 1..NRegs
RegEmails == {"alice@example.com", "bob@example.com"}
\* str(uuid.uuid4()): a fresh id for each request
Uuids == <<"n1", "n2", "n3", "n4">>

\* a registration request: where the handler is, the email of its body, the
\* id generated for it, whether a record with the email was in the users
\* subtree when it arrived, the status answered and the records it wrote
RegIdle == [pc |-> "idle", email |-> "none", uid |-> "none", present |-> FALSE,
            status |-> 0, wrote |-> 0]

\* the scan of register: some record of users_data has the email
EmailTaken(data, email) == \E u \in data : u.email = email

\* POST /auth/register reaches the handler, which waits for
\* async_firebase.read("users")
Register(r, email) ==
  /\ reg[r].pc \in {"idle", "done"}
  /\ nreg < MaxRegs
  /\ nreg' = nreg + 1
  /\ reg' = [reg EXCEPT ![r] = [RegIdle EXCEPT !.pc = "scan", !.email = email,
                                               !.uid = Uuids[nreg + 1],
                                               !.present = EmailTaken(users, email)]]
  /\ UNCHANGED <<boot, gone, yVars>>

\* the read returns (the subtree, or {} when it failed): 400 when the email
\* is found, else the handler hashes the password, generates the id and
\* waits for async_firebase.create
RegisterScan(r, ok) ==
  /\ reg[r].pc = "scan"
  /\ LET users_data == IF ok THEN users ELSE {}
     IN  reg' = [reg EXCEPT ![r] = IF EmailTaken(users_data, reg[r].email)
                                   THEN [@ EXCEPT !.pc = "done", !.status = 400]
                                   ELSE [@ EXCEPT !.pc = "create"]]
  /\ UNCHANGED <<boot, nreg, gone, yVars>>

\* the record register builds
NewUser(uid, email) == [uid |-> uid, email |-> email, username |-> "new", is_admin |-> FALSE]

\* async_firebase.create(f"users/{user_id}", new_user) returns, the record
\* stored at that path, and the handler answers 201; or it raises and the
\* handler's `except Exception` answers 500
RegisterCreate(r, ok) ==
  /\ reg[r].pc = "create"
  /\ users' = IF ok THEN users \cup {NewUser(reg[r].uid, reg[r].email)} ELSE users
  /\ reg' = [reg EXCEPT ![r] = [@ EXCEPT !.pc = "done", !.status = IF ok THEN 201 ELSE 500,
                                         !.wrote = IF ok THEN 1 ELSE 0]]
  /\ UNCHANGED <<utcnow, issued, gateOn, areq, boot, nreg, gone, yVars>>

\* no record has been removed
NoneGone == [removed |-> {}, arrived |-> {}]

\* DELETE /data/users/{item_id}: the record leaves the users subtree
RemoveUser(u) ==
  /\ u \in users
  /\ users' = users \ {u}
  /\ gone' = [gone EXCEPT !.removed = @ \cup {u.email}]
  /\ UNCHANGED <<utcnow, issued, gateOn, areq, boot, reg, nreg, yVars>>

\* a request reaches the application after those removals
ArriveAfter(path, hdr, tok) ==
  /\ AuthArrive(path, hdr, tok)
  /\ gone' = [gone EXCEPT !.arrived = gone.removed]
  /\ UNCHANGED <<boot, reg, nreg, yVars>>

\* no startup, registration or removal yet
XIdle ==
  /\ boot = BootIdle
  /\ reg = [r \in RegReqs |-> RegIdle]
  /\ nreg = 0
  /\ gone = NoneGone

\* ------------------------------------------------------------------ login
\* the login request: the email it sent, the status it was answered, the
\* is_admin claim of the token in the response and the is_admin flag of the
\* record of the email in the users subtree
LoginIdle == [email |-> "none", status |-> 0, is_admin |-> FALSE, flag |-> FALSE]

\* authenticate_user(email, password) once firebase.read("users") has
\* returned users_data, pwok being what verify_password gives: the User it
\* returns (NoUser for None)
AuthenticateUser(users_data, email, pwok) ==
  LET m == Matches(users_data, email)
  IN  IF m = {} \/ ~pwok THEN NoUser
      ELSE LET user_data == CHOOSE u \in m : TRUE
           IN  MakeUser(user_data.uid, email, user_data.username)

\* POST /auth/login and /auth/login-json: 401 when authenticate_user returns
\* None, else a token of ACCESS_TOKEN_EXPIRE_MINUTES whose claims are the
\* email, the id and the is_admin of the User
Login(email, pwok, ok) ==
  /\ areq.pc = "idle"
  /\ LET user == AuthenticateUser(IF ok THEN users ELSE {}, email, pwok)
         access_token_expires == [given |-> TRUE, d |-> DefaultTtl]
         flag == \E u \in Matches(users, email) : u.is_admin
     IN  IF user = NoUser
         THEN /\ login' = [email |-> email, status |-> 401, is_admin |-> FALSE, flag |-> flag]
              /\ UNCHANGED issued
         ELSE /\ issued' = CreateAccessToken([sub |-> user.email, user_id |-> user.id],
                                             access_token_expires, utcnow)
              /\ login' = [email |-> email, status |-> 200, is_admin |-> user.is_admin,
                           flag |-> flag]
  /\ UNCHANGED <<utcnow, users, gateOn, areq>>
  /\ UNCHANGED <<ADMIN_DISABLED, exclude_paths, password_reset_tokens, pwreq, dcall>>

\* --------------------------------------------------------- password reset
MaxPw == 3           \* forgot-password and reset-password requests in one run

\* timedelta(hours=1), in ticks
Hour == 3600 * TicksPerSec

\* a registered account with its password hash, and the inputs of the
\* requests: emails, new passwords, and the strings presented as tokens
Pat == [uid |-> "u5", email |-> "pat@example.com", username |-> "pat", is_admin |-> FALSE,
        hashed_password |-> <<"bcrypt", "p0">>]
PwEmails == {Pat.email, "nobody@example.com"}
Passwords == {"p1", "p2"}
ResetTokens == 1..MaxPw

\* a request to forgot-password or reset-password: the handler (op) and where
\* it is (pc), its arguments, the token forgot-password generated, the entry
\* and the record reset-password read, the response, the passwords it stored,
\* whether it removed the entry of its token, and whether that entry had
\* been removed by a reset-password call before it arrived
PwReq(op, pc) == [op |-> op, pc |-> pc, email |-> "none", token |-> 0, new_password |-> "none",
                  user_id |-> "none", user_data |-> {}, status |-> 0, body |-> "",
                  wrote |-> 0, removed |-> FALSE, late |-> FALSE]

ForgotMessage == "If your email is registered, you'll receive a password reset link"

\* the handler returns or raises: the response
Answer(req, status, body) == [req EXCEPT !.pc = "done", !.status = status, !.body = body]

\* POST /auth/forgot-password reaches request_password_reset, which waits for
\* async_firebase.read("users")
ForgotArrive(email) ==
  /\ Len(pwreq) < MaxPw
  /\ pwreq' = Append(pwreq, [PwReq("forgot", "read") EXCEPT !.email = email])
  /\ UNCHANGED <<ADMIN_DISABLED, exclude_paths, login, password_reset_tokens, dcall>>

\* the read returns (the subtree, or {} when it failed).  No record with the
\* email: the message.  Else secrets.token_urlsafe gives a new token, its
\* entry is stored with expires = utcnow() + 1 hour, and the handler waits for
\* async_gmail_client.send_html_email
ForgotRead(r, ok) ==
  /\ pwreq[r].op = "forgot" /\ pwreq[r].pc = "read"
  /\ LET m == Matches(IF ok THEN users ELSE {}, pwreq[r].email)
     IN  IF m = {}
         THEN /\ pwreq' = [pwreq EXCEPT ![r] = Answer(@, 200, ForgotMessage)]
              /\ UNCHANGED password_reset_tokens
         ELSE LET user_info == CHOOSE u \in m : TRUE
              IN  /\ password_reset_tokens' = password_reset_tokens \cup
                       {[token |-> r, user_id |-> user_info.uid, email |-> pwreq[r].email,
                         expires |-> utcnow + Hour]}
                  /\ pwreq' = [pwreq EXCEPT ![r] = [@ EXCEPT !.pc = "email", !.token = r]]
  /\ UNCHANGED <<ADMIN_DISABLED, exclude_paths, login, dcall>>

\* send_html_email returns, or raises and the handler's `except Exception`
\* answers 500
ForgotEmail(r, ok) ==
  /\ pwreq[r].op = "forgot" /\ pwreq[r].pc = "email"
  /\ pwreq' = [pwreq EXCEPT ![r] =
                 IF ok THEN Answer(@, 200, ForgotMessage)
                 ELSE Answer(@, 500, "Failed to process password reset request")]
  /\ UNCHANGED <<ADMIN_DISABLED, exclude_paths, login, password_reset_tokens, dcall>>

DelKeep(tokens, token) == tokens
\* del password_reset_tokens[token]
Del(tokens, token) == {e \in tokens : e.token # token}

\* a reset-password call removed the entry of the token before now
Removed(token) ==
  \E q \in DOMAIN pwreq : pwreq[q].op = "reset" /\ pwreq[q].token = token /\ pwreq[q].removed

\* POST /auth/reset-password reaches reset_password: 400 when the token has
\* no entry; 400 and the entry removed when utcnow() is past its expires;
\* else the new password is hashed and the handler waits for
\* async_firebase.read(f"users/{user_id}")
ResetArrive(token, new_password) ==
  /\ Len(pwreq) < MaxPw
  /\ LET entry == {e \in password_reset_tokens : e.token = token}
         req == [PwReq("reset", "read") EXCEPT !.token = token, !.new_password = new_password,
                                               !.late = Removed(token)]
     IN  IF entry = {}
         THEN /\ pwreq' = Append(pwreq, Answer(req, 400, "Invalid or expired token"))
              /\ UNCHANGED password_reset_tokens
         ELSE LET token_data == CHOOSE e \in entry : TRUE
              IN  IF utcnow > token_data.expires
                  THEN /\ password_reset_tokens' = Del(password_reset_tokens, token)
                       /\ pwreq' = Append(pwreq, [Answer(req, 400, "Token has expired")
                                                    EXCEPT !.removed = TRUE])
                  ELSE /\ pwreq' = Append(pwreq, [req EXCEPT !.user_id = token_data.user_id,
                                                             !.email = token_data.email])
                       /\ UNCHANGED password_reset_tokens
  /\ UNCHANGED <<ADMIN_DISABLED, exclude_paths, login, dcall>>

\* the read returns the record (or {} when it failed): 404 when it is empty,
\* else the handler sets its hashed_password and waits for
\* async_firebase.update(f"users/{user_id}", user_data)
ResetRead(r, ok) ==
  /\ pwreq[r].op = "reset" /\ pwreq[r].pc = "read"
  /\ LET user_data == IF ok THEN {u \in users : u.uid = pwreq[r].user_id} ELSE {}
     IN  pwreq' = [pwreq EXCEPT ![r] =
                     IF user_data = {} THEN Answer(@, 404, "User not found")
                     ELSE [@ EXCEPT !.pc = "update",
                                    !.user_data = {[u EXCEPT !.hashed_password =
                                                      <<"bcrypt", pwreq[r].new_password>>] :
                                                   u \in user_data}]]
  /\ UNCHANGED <<ADMIN_DISABLED, exclude_paths, login, password_reset_tokens, dcall>>

\* the update returns.  False: 500.  True: the record holds the new hash and
\* the entry of the token is removed (KeyError, answered 500 by `except
\* Exception`, when another call removed it meanwhile); the handler waits
\* for the confirmation email
ResetUpdate(r, ok) ==
  /\ pwreq[r].op = "reset" /\ pwreq[r].pc = "update"
  /\ LET held == \E e \in password_reset_tokens : e.token = pwreq[r].token
     IN  IF ~ok
         THEN /\ pwreq' = [pwreq EXCEPT ![r] = Answer(@, 500, "Failed to update password")]
              /\ UNCHANGED <<users, password_reset_tokens>>
         ELSE /\ users' = {u \in users : u.uid # pwreq[r].user_id} \cup pwreq[r].user_data
              /\ password_reset_tokens' = Del(password_reset_tokens, pwreq[r].token)
              /\ pwreq' = [pwreq EXCEPT ![r] =
                             IF held THEN [@ EXCEPT !.pc = "email", !.wrote = @ + 1,
                                                    !.removed = TRUE]
                             ELSE [Answer(@, 500, "Failed to reset password")
                                     EXCEPT !.wrote = @ + 1]]
  /\ UNCHANGED <<utcnow, issued, gateOn, areq>>
  /\ UNCHANGED <<ADMIN_DISABLED, exclude_paths, login, dcall>>

\* the confirmation email is sent, or send_html_email raises
ResetEmail(r, ok) ==
  /\ pwreq[r].op = "reset" /\ pwreq[r].pc = "email"
  /\ pwreq' = [pwreq EXCEPT ![r] =
                 IF ok THEN Answer(@, 200, "Password has been reset successfully")
                 ELSE Answer(@, 500, "Failed to reset password")]
  /\ UNCHANGED <<ADMIN_DISABLED, exclude_paths, login, password_reset_tokens, dcall>>

\* an hour goes by between two events
HourPasses ==
  /\ utcnow < Hour
  /\ utcnow' = utcnow + Hour
  /\ UNCHANGED <<issued, users, gateOn, areq>>

\* ------------------------------------------------------------- data routes
MaxData == 2         \* requests to the data routes in one run

\* the inputs of the requests: item ids, item names, and the identities
\* get_current_user can return, each with the is_admin flag of its account
ItemIds == {"admin", "i1"}
ItemNames == {"a", "b"}
Principals == {[user |-> MakeUser(Alice.uid, Alice.email, Alice.username), flag |-> FALSE],
               [user |-> ConfigAdmin, flag |-> TRUE]}

\* a request to POST /data/{collection} ("create"), PUT or DELETE
\* /data/{collection}/{item_id} with collection = "users": where the data
\* service is (pc), its arguments, the is_admin flag of the account that
\* sent it, the response, whether the item was in the store when get_by_id
\* read it and when the mutation was applied, and whether it was applied
DataReq(op, item_id, name, flag) ==
  [op |-> op, pc |-> "get", item_id |-> item_id, name |-> name, flag |-> flag, status |-> 0,
   present |-> FALSE, replaced |-> FALSE, applied |-> FALSE]

\* the node at users/{item_id}
ItemAt(data, item_id) == {u \in data : u.uid = item_id}

\* create_item, update_item, delete_item: the dependency
\* get_current_active_user has passed for the identity, and the handler
\* calls the data service, which waits for get_by_id
DataArrive(op, item_id, name, who) ==
  /\ Len(dcall) < MaxData
  /\ AfterIdentity("active", who.user) = NoResp
  /\ dcall' = Append(dcall, DataReq(op, item_id, name, who.flag))
  /\ UNCHANGED <<ADMIN_DISABLED, exclude_paths, login, password_reset_tokens, pwreq>>

\* the status a route answers when the data service raises ValueError
ValueErrorStatus(op) == IF op = "create" THEN 400 ELSE 404

\* get_by_id returns: firebase.read gave the node, or {} when it failed, and
\* `if data` makes that the item or None.  create raises ValueError when the
\* item exists, update and delete when it does not; else the service waits
\* for firebase.write, update or delete
DataGet(r, ok) ==
  /\ dcall[r].pc = "get"
  /\ LET data == IF ok THEN ItemAt(users, dcall[r].item_id) ELSE {}
         existing == data # {}
         seen == [dcall[r] EXCEPT !.present = ItemAt(users, dcall[r].item_id) # {}]
     IN  dcall' = [dcall EXCEPT ![r] =
                     IF existing = (dcall[r].op = "create")
                     THEN [seen EXCEPT !.pc = "done", !.status = ValueErrorStatus(dcall[r].op)]
                     ELSE [seen EXCEPT !.pc = "put"]]
  /\ UNCHANGED <<ADMIN_DISABLED, exclude_paths, login, password_reset_tokens, pwreq>>

\* ref.set, ref.update and ref.delete at users/{item_id} with clean_data
Mutate(op, data, item_id, clean_data) ==
  IF op = "create" THEN {u \in data : u.uid # item_id} \cup {[uid |-> item_id] @@ clean_data}
  ELSE IF op = "delete" THEN {u \in data : u.uid # item_id}
  ELSE IF ItemAt(data, item_id) = {} THEN data \cup {[uid |-> item_id] @@ clean_data}
  ELSE {IF u.uid = item_id THEN clean_data @@ u ELSE u : u \in data}

\* the mutation returns True and the route answers 200, or False and the
\* service raises RuntimeError, answered 500
DataPut(r, ok) ==
  /\ dcall[r].pc = "put"
  /\ users' = IF ok THEN Mutate(dcall[r].op, users, dcall[r].item_id, [name |-> dcall[r].name])
              ELSE users
  /\ dcall' = [dcall EXCEPT ![r] =
                 [@ EXCEPT !.pc = "done", !.status = IF ok THEN 200 ELSE 500, !.applied = ok,
                           !.replaced = ok /\ ItemAt(users, dcall[r].item_id) # {}]]
  /\ UNCHANGED <<utcnow, issued, gateOn, areq>>
  /\ UNCHANGED <<ADMIN_DISABLED, exclude_paths, login, password_reset_tokens, pwreq>>

\* no login, password or data request yet; the configuration of a default
\* deployment
YIdle ==
  /\ ADMIN_DISABLED = FALSE
  /\ exclude_paths = AuthMiddlewareInit({})
  /\ login = LoginIdle
  /\ password_reset_tokens = {}
  /\ pwreq = <<>>
  /\ dcall = <<>>

\* the state right after `firebase = AsyncFirebase()` at import time
InitClient ==
  /\ fb \in [firebase_api_key : KeyKinds, cred : {"None"}, initialized : {FALSE}]
  /\ apps = FALSE
  /\ ENVIRONMENT \in {"localhost", "development"}
  /\ key_file \in BOOLEAN
  /\ certFile \in FileKinds
  /\ appOk \in BOOLEAN
  /\ call = [c \in Callers |-> Idle]
  /\ nops = 0
  /\ loads = 0
  /\ appcalls = 0
  /\ envfail = FALSE
  /\ edlog = <<>>
  /\ instances = New(0)

RLIdle ==
  /\ now = 0
  /\ token_bucket = [k \in Keys |-> NoBucket]
  /\ hist = [k \in Keys |-> <<>>]
  /\ rpc = [r \in Reqs |-> "idle"]
  /\ rkey = [r \in Reqs |-> 1]
  /\ rpath = [r \in Reqs |-> "health"]
  /\ rstatus = [r \in Reqs |-> 0]
  /\ rallowed = [r \in Reqs |-> FALSE]
  /\ rauth = [r \in Reqs |-> FALSE]
  /\ rhandler = [r \in Reqs |-> FALSE]

FBIdle ==
  /\ fb = [firebase_api_key |-> "valid", cred |-> "None", initialized |-> FALSE]
  /\ apps = FALSE
  /\ ENVIRONMENT = "development"
  /\ key_file = TRUE
  /\ certFile = "valid"
  /\ appOk = TRUE
  /\ store = [p \in StorePaths |-> {}]
  /\ call = [c \in Callers |-> Idle]
  /\ nops = 0
  /\ loads = 0
  /\ appcalls = 0
  /\ envfail = FALSE
  /\ edlog = <<>>
  /\ instances = New(0)

\* the process before its first request and its first store operation, under
\* any deployment and any content of the database
InitFB ==
  /\ RLIdle
  /\ AUIdle
  /\ XIdle
  /\ YIdle
  /\ InitClient
  /\ store \in [StorePaths -> Seeded]

InitRL == RLIdle /\ FBIdle /\ AUIdle /\ XIdle /\ YIdle

NextRL ==
  \/ \E r \in Reqs, key \in Keys, path \in Paths : Arrive(r, key, path) /\ UNCHANGED <<fbVars, auVars, xVars, yVars>>
  \/ \E r \in Reqs : Dispatch(r) /\ UNCHANGED <<fbVars, auVars, xVars, yVars>>
  \/ \E r \in Reqs, valid \in BOOLEAN : RouteAuth(r, valid) /\ UNCHANGED <<fbVars, auVars, xVars, yVars>>
  \/ \E r \in Reqs : RoutePublic(r) /\ UNCHANGED <<fbVars, auVars, xVars, yVars>>
  \/ \E r \in Reqs : Handler(r) /\ UNCHANGED <<fbVars, auVars, xVars, yVars>>
  \/ \E r \in Reqs : Recycle(r) /\ UNCHANGED <<fbVars, auVars, xVars, yVars>>
  \/ Tick /\ UNCHANGED <<fbVars, auVars, xVars, yVars>>

SpecRL == InitRL /\ [][NextRL]_vars

\* the client's life cycle: tasks that call initialize() or read, constructions
\* of AsyncFirebase and a deployment that changes under them
LifecycleOps == {"initialize", "read"}

NextFB ==
  \/ \E c \in Callers, op \in LifecycleOps, path \in AllPaths :
        Start(c, op, path, {}) /\ UNCHANGED <<edlog, rlVars, auVars, xVars, yVars>>
  \/ \E c \in Callers : Reference(c) /\ UNCHANGED <<edlog, rlVars, auVars, xVars, yVars>>
  \/ \E c \in Callers, ok \in BOOLEAN : Io(c, ok) /\ UNCHANGED <<edlog, rlVars, auVars, xVars, yVars>>
  \/ \E key \in KeyKinds : Construct(key) /\ UNCHANGED <<edlog, rlVars, auVars, xVars, yVars>>
  \/ \E kind \in FileKinds : SetCertFile(kind) /\ UNCHANGED <<edlog, rlVars, auVars, xVars, yVars>>
  \/ \E b \in BOOLEAN : SetAppOk(b) /\ UNCHANGED <<edlog, rlVars, auVars, xVars, yVars>>

SpecFB == InitFB /\ [][NextFB]_vars

\* the store operations: tasks that call any of them, under any deployment
NextOps ==
  \/ \E c \in Callers, op \in Ops, path \in AllPaths, val \in Args :
        Start(c, op, path, val) /\ UNCHANGED <<edlog, rlVars, auVars, xVars, yVars>>
  \/ \E c \in Callers : Reference(c) /\ UNCHANGED <<edlog, rlVars, auVars, xVars, yVars>>
  \/ \E c \in Callers, ok \in BOOLEAN : Io(c, ok) /\ UNCHANGED <<edlog, rlVars, auVars, xVars, yVars>>

SpecOps == InitFB /\ [][NextOps]_vars

\* ensure_default_entry called again and again by one task, each call after
\* the one before has returned; edlog records for each call the value passed,
\* the node before and after, the ref.set calls that completed, whether its
\* ref.get completed, and the value returned
NodeAt(st, path) == IF path \in StorePaths THEN st[path] ELSE {}

Observed(e, c, ok) ==
  [e EXCEPT !.readok = @ \/ (call[c].pc = "io" /\ call[c].phase = "read" /\ ok),
            !.writes = @ + (IF call[c].pc = "io" /\ call[c].phase = "write" /\ ok THEN 1 ELSE 0),
            !.res = call'[c].res,
            !.after = NodeAt(store', call[c].path)]

NextED ==
  \/ \E path \in AllPaths, val \in Args :
        /\ Start(1, "ensure", path, val)
        /\ edlog' = Append(edlog, [path |-> path, val |-> val, before |-> NodeAt(store, path),
                                   after |-> NodeAt(store, path), writes |-> 0,
                                   readok |-> FALSE, res |-> call'[1].res])
        /\ UNCHANGED <<rlVars, auVars, xVars, yVars>>
  \/ /\ Reference(1)
     /\ edlog' = [edlog EXCEPT ![Len(edlog)] = Observed(@, 1, FALSE)]
     /\ UNCHANGED <<rlVars, auVars, xVars, yVars>>
  \/ \E ok \in BOOLEAN :
        /\ Io(1, ok)
        /\ edlog' = [edlog EXCEPT ![Len(edlog)] = Observed(@, 1, ok)]
        /\ UNCHANGED <<rlVars, auVars, xVars, yVars>>

SpecED == InitFB /\ [][NextED]_vars

\* the application as main.py assembles it: AuthMiddleware is not registered
InitApp ==
  /\ RLIdle
  /\ FBIdle
  /\ XIdle
  /\ YIdle
  /\ AUStart
  /\ gateOn = FALSE

NextApp ==
  \/ \E path \in ReqPaths, hdr \in HeaderKinds, tok \in Presentable :
        AuthArrive(path, hdr, tok) /\ UNCHANGED <<rlVars, fbVars, xVars, yVars>>
  \/ RouteStep /\ UNCHANGED <<rlVars, fbVars, xVars, yVars>>
  \/ \E ok \in BOOLEAN : ReadUsers(ok) /\ UNCHANGED <<rlVars, fbVars, xVars, yVars>>
  \/ HandlerRun /\ UNCHANGED <<rlVars, fbVars, xVars, yVars>>
  \/ AuthRecycle /\ UNCHANGED <<rlVars, fbVars, xVars, yVars>>
  \/ \E data \in Claims, ttl \in Ttls : Issue(data, ttl) /\ UNCHANGED <<rlVars, fbVars, xVars, yVars>>
  \/ AuthTick /\ UNCHANGED <<rlVars, fbVars, xVars, yVars>>

SpecApp == InitApp /\ [][NextApp]_vars

\* the application with app.add_middleware(AuthMiddleware) in effect
InitGate ==
  /\ RLIdle
  /\ FBIdle
  /\ XIdle
  /\ YIdle
  /\ AUStart
  /\ gateOn = TRUE

NextGate ==
  \/ NextApp
  \/ GateDispatch /\ UNCHANGED <<rlVars, fbVars, xVars, yVars>>

SpecGate == InitGate /\ [][NextGate]_vars


\* process startup under any deployment and either content of the users
\* subtree, up to the first request
InitBoot ==
  /\ RLIdle
  /\ AUStart
  /\ gateOn = FALSE
  /\ XIdle
  /\ YIdle
  /\ InitClient
  /\ store = [p \in StorePaths |-> {}]

NextBoot ==
  \/ LifespanEnter /\ UNCHANGED rlVars
  \/ \E ok \in BOOLEAN : LifespanRead(ok) /\ UNCHANGED rlVars
  \/ \E ok \in BOOLEAN : LifespanWrite(ok) /\ UNCHANGED rlVars
  \/ Accept /\ UNCHANGED rlVars

SpecBoot == InitBoot /\ [][NextBoot]_vars

\* registration requests, several at once, against either content of the
\* users subtree
InitReg ==
  /\ RLIdle
  /\ FBIdle
  /\ AUStart
  /\ gateOn = FALSE
  /\ XIdle
  /\ YIdle

NextReg ==
  \/ \E r \in RegReqs, email \in RegEmails : Register(r, email) /\ UNCHANGED <<rlVars, fbVars, auVars>>
  \/ \E r \in RegReqs, ok \in BOOLEAN : RegisterScan(r, ok) /\ UNCHANGED <<rlVars, fbVars, auVars>>
  \/ \E r \in RegReqs, ok \in BOOLEAN : RegisterCreate(r, ok) /\ UNCHANGED <<rlVars, fbVars>>

SpecReg == InitReg /\ [][NextReg]_vars

\* the application while records are removed from the users subtree: requests
\* to the routes that authenticate, to one that declares no dependency and
\* to a public one, with tokens of a user and of the reserved admin
RevokePaths == {UserMePath, ListUsersPath, HealthPath, Api(<<"auth", "check-admin">>)}
RevokeClaims == {AliceClaims, AdminClaims, [sub |-> "alice@example.com", user_id |-> "admin"]}

NextRevoke ==
  \/ \E path \in RevokePaths, hdr \in HeaderKinds, tok \in Presentable :
        ArriveAfter(path, hdr, tok) /\ UNCHANGED <<rlVars, fbVars>>
  \/ RouteStep /\ UNCHANGED <<rlVars, fbVars, xVars, yVars>>
  \/ \E ok \in BOOLEAN : ReadUsers(ok) /\ UNCHANGED <<rlVars, fbVars, xVars, yVars>>
  \/ HandlerRun /\ UNCHANGED <<rlVars, fbVars, xVars, yVars>>
  \/ AuthRecycle /\ UNCHANGED <<rlVars, fbVars, xVars, yVars>>
  \/ \E data \in RevokeClaims, ttl \in Ttls : Issue(data, ttl) /\ UNCHANGED <<rlVars, fbVars, xVars, yVars>>
  \/ AuthTick /\ UNCHANGED <<rlVars, fbVars, xVars, yVars>>
  \/ \E u \in UNION UserDbs : RemoveUser(u) /\ UNCHANGED <<rlVars, fbVars>>

SpecRevoke == InitApp /\ [][NextRevoke]_vars

\* NReq requests of one client whose handlers mutate the store, cancelled at
\* any point after their admission
NextCancel ==
  \/ \E r \in Reqs, path \in Paths : Arrive(r, 1, path) /\ UNCHANGED <<fbVars, auVars, xVars, yVars>>
  \/ \E r \in Reqs : Dispatch(r) /\ UNCHANGED <<fbVars, auVars, xVars, yVars>>
  \/ \E r \in Reqs, valid \in BOOLEAN : RouteAuth(r, valid) /\ UNCHANGED <<fbVars, auVars, xVars, yVars>>
  \/ \E r \in Reqs : RoutePublic(r) /\ UNCHANGED <<fbVars, auVars, xVars, yVars>>
  \/ \E r \in Reqs, op \in {"write", "update", "delete"}, val \in Args :
        HandlerStore(r, op, val) /\ UNCHANGED <<auVars, xVars, yVars>>
  \/ \E r \in Reqs : rpc[r] = "store" /\ Reference(r) /\ UNCHANGED <<edlog, rlVars, auVars, xVars, yVars>>
  \/ \E r \in Reqs, ok \in BOOLEAN : rpc[r] = "store" /\ Io(r, ok) /\ UNCHANGED <<edlog, rlVars, auVars, xVars, yVars>>
  \/ \E r \in Reqs : HandlerReturn(r) /\ UNCHANGED <<auVars, xVars, yVars>>
  \/ \E r \in Reqs, applied \in BOOLEAN : Cancel(r, applied) /\ UNCHANGED <<auVars, xVars, yVars>>
  \/ Tick /\ UNCHANGED <<fbVars, auVars, xVars, yVars>>

SpecCancel == InitRL /\ [][NextCancel]_vars

\* the application with its login endpoints: logins of registered and
\* unregistered emails between the requests
LoginEmails == {"alice@example.com", "root@example.com", "mallory@example.com"}

NextLogin ==
  \/ NextApp
  \/ \E email \in LoginEmails, pwok \in BOOLEAN, ok \in BOOLEAN :
        Login(email, pwok, ok) /\ UNCHANGED <<rlVars, fbVars, xVars>>

SpecLogin == InitApp /\ [][NextLogin]_vars

\* the application serving accounts that have been disabled: a record of the
\* users subtree with "disabled": true, and the reserved admin under either
\* value of ADMIN_DISABLED
Dora == [uid |-> "u4", email |-> "dora@example.com", username |-> "dora", is_admin |-> FALSE,
         disabled |-> TRUE]
ActiveClaims == {AliceClaims, AdminClaims, [sub |-> Dora.email, user_id |-> Dora.uid]}

InitActive ==
  /\ RLIdle
  /\ FBIdle
  /\ XIdle
  /\ utcnow = 0
  /\ issued = NoTok
  /\ users = {Alice, Dora}
  /\ gateOn = FALSE
  /\ areq = IdleReq
  /\ ADMIN_DISABLED \in BOOLEAN
  /\ exclude_paths = AuthMiddlewareInit({})
  /\ login = LoginIdle
  /\ password_reset_tokens = {}
  /\ pwreq = <<>>
  /\ dcall = <<>>

NextActive ==
  \/ \E path \in {UserMePath, ListUsersPath, HealthPath}, hdr \in HeaderKinds, tok \in Presentable :
        AuthArrive(path, hdr, tok) /\ UNCHANGED <<rlVars, fbVars, xVars, yVars>>
  \/ RouteStep /\ UNCHANGED <<rlVars, fbVars, xVars, yVars>>
  \/ \E ok \in BOOLEAN : ReadUsers(ok) /\ UNCHANGED <<rlVars, fbVars, xVars, yVars>>
  \/ HandlerRun /\ UNCHANGED <<rlVars, fbVars, xVars, yVars>>
  \/ AuthRecycle /\ UNCHANGED <<rlVars, fbVars, xVars, yVars>>
  \/ \E data \in ActiveClaims, ttl \in Ttls : Issue(data, ttl) /\ UNCHANGED <<rlVars, fbVars, xVars, yVars>>
  \/ AuthTick /\ UNCHANGED <<rlVars, fbVars, xVars, yVars>>

SpecActive == InitActive /\ [][NextActive]_vars

\* the password endpoints: forgot-password and reset-password requests, any
\* number of them in flight, while the clock advances
InitPw ==
  /\ RLIdle
  /\ FBIdle
  /\ XIdle
  /\ YIdle
  /\ utcnow = 0
  /\ issued = NoTok
  /\ users = {Pat}
  /\ gateOn = FALSE
  /\ areq = IdleReq

NextPw ==
  \/ \E email \in PwEmails : ForgotArrive(email) /\ UNCHANGED <<rlVars, fbVars, auVars, xVars>>
  \/ \E r \in DOMAIN pwreq, ok \in BOOLEAN : ForgotRead(r, ok) /\ UNCHANGED <<rlVars, fbVars, auVars, xVars>>
  \/ \E r \in DOMAIN pwreq, ok \in BOOLEAN : ForgotEmail(r, ok) /\ UNCHANGED <<rlVars, fbVars, auVars, xVars>>
  \/ \E token \in ResetTokens, new_password \in Passwords :
        ResetArrive(token, new_password) /\ UNCHANGED <<rlVars, fbVars, auVars, xVars>>
  \/ \E r \in DOMAIN pwreq, ok \in BOOLEAN : ResetRead(r, ok) /\ UNCHANGED <<rlVars, fbVars, auVars, xVars>>
  \/ \E r \in DOMAIN pwreq, ok \in BOOLEAN : ResetUpdate(r, ok) /\ UNCHANGED <<rlVars, fbVars, xVars>>
  \/ \E r \in DOMAIN pwreq, ok \in BOOLEAN : ResetEmail(r, ok) /\ UNCHANGED <<rlVars, fbVars, auVars, xVars>>
  \/ AuthTick /\ UNCHANGED <<rlVars, fbVars, xVars, yVars>>
  \/ HourPasses /\ UNCHANGED <<rlVars, fbVars, xVars, yVars>>

SpecPw == InitPw /\ [][NextPw]_vars

\* the data routes on the users subtree after startup has written the admin
\* record: requests of an ordinary user and of the admin, in flight together
InitData ==
  /\ RLIdle
  /\ FBIdle
  /\ XIdle
  /\ YIdle
  /\ utcnow = 0
  /\ issued = NoTok
  /\ users = {AdminRecord}
  /\ gateOn = FALSE
  /\ areq = IdleReq

NextData ==
  \/ \E op \in {"create", "update", "delete"}, item_id \in ItemIds, name \in ItemNames,
        who \in Principals :
        DataArrive(op, item_id, name, who) /\ UNCHANGED <<rlVars, fbVars, auVars, xVars>>
  \/ \E r \in DOMAIN dcall, ok \in BOOLEAN : DataGet(r, ok) /\ UNCHANGED <<rlVars, fbVars, auVars, xVars>>
  \/ \E r \in DOMAIN dcall, ok \in BOOLEAN : DataPut(r, ok) /\ UNCHANGED <<rlVars, fbVars, xVars>>

SpecData == InitData /\ [][NextData]_vars

\* the application with AuthMiddleware registered, built without
\* exclude_paths or with a list of its own
InitExclude ==
  /\ RLIdle
  /\ FBIdle
  /\ XIdle
  /\ AUStart
  /\ gateOn = TRUE
  /\ ADMIN_DISABLED = FALSE
  /\ exclude_paths \in {AuthMiddlewareInit(given) : given \in {{}, {UserMePath, HealthPath}}}
  /\ login = LoginIdle
  /\ password_reset_tokens = {}
  /\ pwreq = <<>>
  /\ dcall = <<>>

SpecExclude == InitExclude /\ [][NextGate]_vars

\* ------------------------------------------------------------------ claims

\* C1: after any sequence of is_allowed calls under a non-decreasing clock,
\* every bucket holds at least 0 and at most rate tokens.
C1_TokensInRange ==
  \A k \in Keys : token_bucket[k] # NoBucket =>
     /\ 0 <= token_bucket[k].tokens
     /\ token_bucket[k].tokens <= Rate * ONE

\* a bucket that was emptied, then refilled after the clock advanced
C1_Witness ==
  \E k \in Keys : /\ Len(hist[k]) >= 2
                  /\ hist[k][1].ok
                  /\ hist[k][2].t > hist[k][1].t
                  /\ token_bucket[k].last_refill = hist[k][2].t

\* C2: the first rate+1 calls on an unseen key, made with no time elapsing,
\* return True for the first rate of them and False for the last one.
C2_BurstDeniedOnLast ==
  \A k \in Keys : \A i \in 1..Len(hist[k]) :
     (i <= Rate + 1 /\ hist[k][i].t = hist[k][1].t) => (hist[k][i].ok <=> i <= Rate)

\* rate+1 calls on one key at one instant
C2_Witness ==
  \E k \in Keys : /\ Len(hist[k]) >= Rate + 1
                  /\ hist[k][Rate + 1].t = hist[k][1].t

\* consecutive calls of a key are exactly per/rate apart
Spaced(h) == \A i \in 2..Len(h) : h[i].t - h[i-1].t = TicksPerToken

\* C3: in a sequence of calls on one key spaced exactly per/rate apart, no
\* call is denied.
C3_SteadyNeverDenied ==
  \A k \in Keys : Spaced(hist[k]) => \A i \in 1..Len(hist[k]) : hist[k][i].ok

\* C4: of the calls one key makes at one instant, at most floor(k) are
\* allowed, k being the tokens the bucket held at the first of them.
C4_NoDoubleSpend ==
  \A k \in Keys : \A i \in 1..Len(hist[k]) :
     Cardinality({j \in i..Len(hist[k]) : hist[k][j].t = hist[k][i].t /\ hist[k][j].ok})
        <= hist[k][i].before \div ONE

\* two requests of one key were waiting on is_allowed together, and the
\* second found the token spent
C4_Witness ==
  \E k \in Keys : \E i \in 1..Len(hist[k]) : \E j \in 1..Len(hist[k]) :
     /\ i < j
     /\ hist[k][i].t = hist[k][j].t
     /\ hist[k][i].conc >= 1
     /\ hist[k][i].ok
     /\ ~hist[k][j].ok

\* C5: a request the limiter denied is answered 429 at once, and neither the
\* authentication dependency nor a route handler runs for it.
C5_DeniedNotPassedOn ==
  \A r \in Reqs : (rpc[r] \notin {"idle", "rate_limit"} /\ ~rallowed[r]) =>
     /\ rpc[r] = "done"
     /\ rstatus[r] = 429
     /\ ~rauth[r]
     /\ ~rhandler[r]

\* a denied request of a protected route has been answered
C5_Witness ==
  \E r \in Reqs : rpc[r] = "done" /\ ~rallowed[r] /\ rpath[r] = "protected" /\ rstatus[r] = 429

\* C6: with a deployment that lets initialization succeed, concurrent first
\* uses of the client run the credential load and initialize_app once in all:
\* never a second time, and once as soon as the client is ready.
C6_InitializedOnce ==
  ~envfail => /\ loads <= 1
              /\ appcalls <= 1
              /\ (fb.initialized => loads = 1 /\ appcalls = 1)

\* two tasks are inside their first operation together, and the sequence ran once
C6_Witness ==
  /\ \A c \in Callers : c <= 2 => call[c].pc \in {"ref", "io"}
  /\ ~envfail
  /\ loads = 1
  /\ appcalls = 1

\* C7: once the client is initialized, no step loads credentials or calls
\* initialize_app again, and none but a construction changes the instance.
C7_InitializeIdempotent ==
  [][fb.initialized =>
        /\ loads' = loads
        /\ appcalls' = appcalls
        /\ apps' = apps
        /\ fb'.initialized
        /\ (fb' = fb \/ \E key \in KeyKinds : Construct(key))]_vars

\* initialize() was called on an initialized client and returned
C7_Witness ==
  \E c \in Callers : /\ call[c].op = "initialize"
                     /\ call[c].pc = "done"
                     /\ call[c].ready0
                     /\ ~call[c].raised

\* the deployment lets an initialization succeed
Healthy == (fb.cred = "cert" \/ LoadCredentials(fb) = "cert") /\ appOk

\* C8: initialize() on a client that is not ready raises and leaves it not
\* ready when the deployment is broken, and returns with the client ready
\* when the deployment is sound, whatever attempts failed before.
C8_FailedInitRetried ==
  [][\A c \in Callers :
        (call'[c] # call[c] /\ call'[c].op = "initialize" /\ ~fb.initialized) =>
           IF Healthy
           THEN ~call'[c].raised /\ fb'.initialized
           ELSE call'[c].raised /\ ~fb'.initialized /\ ~apps']_vars

\* one initialize() raised, and a later one made the client ready
C8_Witness ==
  \E c \in Callers, d \in Callers :
     /\ call[c].op = "initialize" /\ call[c].raised
     /\ call[d].op = "initialize" /\ call[d].pc = "done"
     /\ ~call[d].raised /\ ~call[d].ready0
     /\ fb.initialized

StoreOps == {"read", "write", "update", "delete", "ensure"}
Mutations == {"write", "update", "delete"}

\* C9: no store operation raises to its caller; read returns the empty
\* mapping when it failed; write, update and delete return False when they
\* failed and True otherwise, and they return True only from the step in
\* which the remote call was applied to the store.
C9_NeverRaises ==
  /\ [](\A c \in Callers : call[c].op \in StoreOps =>
          /\ ~call[c].raised
          /\ (call[c].pc = "done" /\ call[c].op = "read") =>
                /\ call[c].res \in {"empty", "value"}
                /\ (call[c].exc # "none" => call[c].res = "empty")
          /\ (call[c].pc = "done" /\ call[c].op \in Mutations) =>
                /\ call[c].res \in {"True", "False"}
                /\ (call[c].res = "False" <=> call[c].exc # "none")
          /\ (call[c].pc = "done" /\ call[c].op = "ensure") =>
                call[c].res \in {"True", "False"})
  /\ [][\A c \in Callers :
          (call[c].pc # "done" /\ call'[c].pc = "done" /\ call'[c].op \in Mutations) =>
             IF call'[c].res = "True"
             THEN /\ call[c].pc = "io"
                  /\ store'[call[c].path] = Remote(call[c].op, store[call[c].path], call[c].val)
             ELSE store' = store]_vars

\* a write whose initialization failed on a missing key file returned False
C9_Witness ==
  \E c \in Callers : /\ call[c].op = "write"
                     /\ call[c].pc = "done"
                     /\ call[c].exc = "FileNotFoundError"
                     /\ call[c].res = "False"
                     /\ ~call[c].raised

\* C10: ensure_default_entry called twice in a row with a value on a path
\* that was empty, the first call having stored the value: one write is
\* performed in all, none by the second call, and the second call leaves the
\* stored value as the first left it.
C10_EnsureTwiceOneWrite ==
  \A i \in 1..(Len(edlog) - 1) :
     LET first == edlog[i]
         second == edlog[i + 1]
     IN  (/\ first.before = {}
          /\ first.val # {}
          /\ first.res = "True"
          /\ second.path = first.path
          /\ second.val = first.val
          /\ second.res # "none") =>
            /\ first.writes + second.writes = 1
            /\ second.writes = 0
            /\ second.after = first.after

\* C11: ensure_default_entry writes only when the path holds no data, whatever
\* the read of the call did: a call that found a non-empty value at its path
\* completes no ref.set and leaves the value as it was.
C11_EnsureNeverOverwrites ==
  \A i \in 1..Len(edlog) :
     edlog[i].before # {} => (edlog[i].writes = 0 /\ edlog[i].after = edlog[i].before)

\* C12: a token made by create_access_token is accepted by the jwt.decode of
\* get_current_user at every time before the datetime it expires at, and one
\* second after that datetime it is rejected with the 401 of
\* credentials_exception.
C12_ValidUntilExpiry ==
  (areq.decoded # "none" /\ areq.tok.key = "SECRET_KEY") =>
     /\ areq.at < areq.tok.expire => areq.decoded = "ok"
     /\ areq.at = areq.tok.expire + TicksPerSec =>
          (areq.decoded = "ExpiredSignatureError" /\ areq.pc = "done" /\ areq.resp = Cred401)

C12_Witness ==
  /\ areq.tok.key = "SECRET_KEY"
  /\ areq.at = areq.tok.expire + TicksPerSec
  /\ areq.decoded = "ExpiredSignatureError"
  /\ areq.resp.status = 401

\* C13: a token signed with another secret never yields an identity, whatever
\* its claims (the reserved admin id included): on a route that authenticates,
\* jwt.decode raises, the response is 401 and the handler does not run.
C13_ForeignSecretRejected ==
  areq.tok.key = "other" =>
     /\ areq.user = NoUser
     /\ areq.decoded \in {"none", "JWTError"}
     /\ DepOf(areq.path) \in {"active", "admin"} =>
          /\ areq.pc \in {"route", "done"}
          /\ ~areq.ran
          /\ areq.pc = "done" => (areq.decoded = "JWTError" /\ areq.resp = Cred401)

C13_Witness ==
  /\ areq.tok.key = "other"
  /\ areq.tok.user_id = "admin"
  /\ areq.path = ListUsersPath
  /\ areq.pc = "done"
  /\ areq.resp.status = 401

\* C14: whenever create_access_token is given an expires_delta the token
\* expires at now + expires_delta, and only with none given at now + 10
\* minutes.
C14_ExpiryIsNowPlusTtl ==
  [][issued' # issued =>
       issued'.expire = utcnow + (IF issued'.ttl.given THEN issued'.ttl.d ELSE DefaultTtl)]_vars

\* the public allow-list as the specification gives it: health check, form
\* and JSON login, token issuance, registration, password-reset request and
\* confirm, the documentation routes and the static prefix
AllowListed(path) ==
  \/ path \in {HealthPath, LoginJsonPath, ResetPasswordPath}
  \/ path \in {Api(<<"auth", x>>) : x \in {"login", "token", "register", "forgot-password"}}
  \/ path \in {<<"docs">>, <<"redoc">>, <<"openapi.json">>}
  \/ path[1] = "static"

\* C15: with AuthMiddleware in place, a request without an Authorization
\* header to a path of the allow-list is never answered 401.
C15_AllowListNeverRejected ==
  (areq.hdr = "none" /\ AllowListed(areq.path)) => areq.resp.status # 401

\* the request was refused for one of: no header, a malformed header, an
\* expired token, a token with a bad signature
Unauthenticated(req) ==
  \/ req.hdr \in {"none", "malformed"}
  \/ req.decoded \in {"ExpiredSignatureError", "JWTError"}

\* C16: on a path outside the allow-list, requests with no header, with a
\* malformed header, with an expired token and with a bad-signature token all
\* get the response the request with no header gets: 401, the same body, and
\* WWW-Authenticate: Bearer.  Stated for the routes that authenticate.
C16_SameUnauthenticatedResponse ==
  (/\ areq.pc = "done"
   /\ ~AllowListed(areq.path)
   /\ DepOf(areq.path) \in {"active", "admin"}
   /\ Unauthenticated(areq)) =>
     /\ areq.resp.status = 401
     /\ areq.resp.www
     /\ areq.resp.body = Oauth2Scheme("none").body

\* C17: a request whose valid token names the reserved admin id, or a user
\* whose record has the admin flag, passes get_current_admin_user and the
\* list-users handler answers it.
C17_AdminPasses ==
  (/\ areq.pc = "done"
   /\ areq.path = ListUsersPath
   /\ areq.user # NoUser
   /\ areq.flag) => (areq.ran /\ areq.resp.status = 200)

\* C18: a request with a valid token of a user without the admin flag to the
\* admin-only operation is answered 403, never 401; the handler does not run
\* and reads nothing from the store.
C18_NonAdminForbidden ==
  (/\ areq.path = ListUsersPath
   /\ areq.user # NoUser
   /\ ~areq.flag) =>
     /\ areq.pc = "done"
     /\ areq.resp = Admin403
     /\ ~areq.ran
     /\ areq.hreads = 0

C18_Witness ==
  /\ areq.path = ListUsersPath
  /\ areq.pc = "done"
  /\ areq.user.email = "alice@example.com"
  /\ areq.decoded = "ok"
  /\ areq.resp.status = 403

C20_HandlerNeedsToken ==
  (areq.ran /\ ~AllowListed(areq.path)) => (areq.hdr = "bearer" /\ areq.decoded = "ok")

\* C21: whatever the users subtree held before, once startup has completed
\* with the client initialized and every remote call answered, the subtree
\* holds a record with the configured admin email and the admin flag.
C21_AdminRecordAfterStartup ==
  (boot.pc = "serving" /\ ~boot.initfailed /\ boot.reachable) =>
     \E u \in users : u.email = ConfigAdmin.email /\ u.is_admin

\* C22: after a startup in which _initialize_firebase raised, no request is
\* accepted.
C22_FailedStartupIsFatal ==
  boot.initfailed => ~boot.served

\* C23: whatever registration requests were made, at once or one after
\* another, no two records of the users subtree have the same email, and a
\* request whose email was in the subtree when it arrived is answered 400
\* and writes nothing.
C23_EmailUnique ==
  /\ \A u \in users : \A v \in users : u.email = v.email => u = v
  /\ \A r \in RegReqs : (reg[r].pc = "done" /\ reg[r].present) =>
        (reg[r].status = 400 /\ reg[r].wrote = 0)

\* on the routes that declare get_current_user as a dependency, a token of
\* this application for a user other than the reserved admin whose record
\* was removed before the request arrived is answered 401 with no identity
\* and no handler run, after one read of the users subtree when it verified
RefusedByDependency ==
  (/\ areq.pc \in {"handler", "done"}
   /\ DepOf(areq.path) \in {"active", "admin"}
   /\ areq.hdr = "bearer"
   /\ areq.tok.key = "SECRET_KEY"
   /\ areq.tok.user_id # "admin"
   /\ areq.tok.sub \in gone.arrived) =>
     /\ areq.pc = "done"
     /\ areq.resp.status = 401
     /\ areq.user = NoUser
     /\ ~areq.ran
     /\ areq.decoded = "ok" => areq.depreads = 1

\* C24: a request to a path outside the allow-list, carrying a token of this
\* application for a user other than the reserved admin whose record had
\* been removed from the users subtree before the request arrived, is
\* answered 401 and its handler does not run.
C24_RemovedUserRejected ==
  (/\ areq.pc \in {"handler", "done"}
   /\ ~AllowListed(areq.path)
   /\ areq.hdr = "bearer"
   /\ areq.tok.key = "SECRET_KEY"
   /\ areq.tok.user_id # "admin"
   /\ areq.tok.sub \in gone.arrived) =>
     /\ areq.pc = "done"
     /\ areq.resp.status = 401
     /\ ~areq.ran

\* C25: for every request AuthMiddleware rejects, and for every request it
\* lets through because the path is public, it has written a log line that
\* names the path of the request.
C25_GateAudited ==
  (/\ gateOn
   /\ areq.pc \notin {"idle", "gate"}
   /\ (areq.resp = Gate401 \/ is_public_route(areq.path))) =>
     \E l \in areq.audit : l.path = areq.path

\* C26: there is one AsyncFirebase object throughout, and once it is ready
\* (_initialized set and the app registered) every step leaves it ready:
\* store operations, failed remote calls, initialize() calls, constructions
\* and changes of the deployment.
C26_StaysReady ==
  /\ [](instances = 1)
  /\ [][(fb.initialized /\ apps) => (fb'.initialized /\ apps')]_vars

\* on a ready client a remote call has failed and AsyncFirebase() has been
\* constructed again (the credential is unset once more)
C26_Witness ==
  /\ fb.initialized
  /\ apps
  /\ instances = 1
  /\ fb.cred = "None"
  /\ \E c \in Callers : /\ call[c].pc = "done"
                        /\ call[c].ready0
                        /\ call[c].exc = "FirebaseError"

\* C27: a key has a bucket exactly when is_allowed was called for it, the
\* first call for a key found its bucket holding rate tokens, and no step
\* removes a bucket.
C27_BucketsOnlyGrow ==
  /\ [](\A k \in Keys :
          /\ token_bucket[k] # NoBucket <=> hist[k] # <<>>
          /\ hist[k] # <<>> => hist[k][1].before = Rate * ONE)
  /\ [][\A k \in Keys : token_bucket[k] # NoBucket => token_bucket'[k] # NoBucket]_vars

\* both keys have been seen, the second one later than the first, and the
\* first one's bucket has been used again since
C27_Witness ==
  /\ \A k \in Keys : token_bucket[k] # NoBucket
  /\ \E k \in Keys, j \in Keys :
        /\ Len(hist[k]) >= 2
        /\ hist[j][1].t > hist[k][1].t

\* C28: a denied is_allowed call leaves in the bucket what the refill found
\* there, with last_refill at the time of the call, and the next call of the
\* key finds exactly the tokens earned in between added to it, up to the cap:
\* elapsed * rate / per, with nothing lost.
C28_DeniedLosesNothing ==
  \A k \in Keys :
     /\ \A i \in 1..(Len(hist[k]) - 1) :
           ~hist[k][i].ok =>
              hist[k][i + 1].before =
                 Min(Rate * ONE, hist[k][i].before + NewTokens(hist[k][i + 1].t - hist[k][i].t))
     /\ (hist[k] # <<>> /\ ~hist[k][Len(hist[k])].ok) =>
           /\ token_bucket[k].tokens = hist[k][Len(hist[k])].before
           /\ token_bucket[k].last_refill = hist[k][Len(hist[k])].t

\* C30: a construction of AsyncFirebase on a client that has loaded its
\* credential or is ready changes neither firebase_api_key nor cred.
C30_ConstructorOnce ==
  [][((\E key \in KeyKinds : Construct(key)) /\ (fb.cred # "None" \/ fb.initialized)) =>
        (fb'.firebase_api_key = fb.firebase_api_key /\ fb'.cred = fb.cred)]_vars

\* C29: buckets hold between 0 and rate tokens throughout, also after
\* cancellations; the step that cancels an admitted request changes no
\* bucket (the token is not given back), and it leaves the store as it is
\* when the request's mutation had already returned.
C29_CancelKeepsEffects ==
  /\ [](\A k \in Keys : token_bucket[k] # NoBucket =>
           (0 <= token_bucket[k].tokens /\ token_bucket[k].tokens <= Rate * ONE))
  /\ [][\A r \in Reqs :
          (rpc[r] \in {"call_next", "handler", "store"} /\ rpc'[r] = "done" /\ rstatus'[r] = 0) =>
             /\ rallowed[r]
             /\ token_bucket' = token_bucket
             /\ (rpc[r] = "store" /\ call[r].pc = "done") => store' = store]_vars

\* a request was admitted and spent the token of its key, its write was
\* applied and returned True, and then the request was cancelled
C29_Witness ==
  \E r \in Reqs :
     /\ rpc[r] = "done"
     /\ rstatus[r] = 0
     /\ rallowed[r]
     /\ token_bucket[rkey[r]].tokens < ONE
     /\ call[r].op = "write"
     /\ call[r].res = "True"
     /\ store["users"] = {"a"}

\* C31: the token a login endpoint issues carries an is_admin claim equal to
\* the is_admin flag of the store record of the user who logged in.
C31_TokenCarriesAdminFlag ==
  login.status = 200 => login.is_admin = login.flag

\* the account the token of the request names has been disabled: the record
\* of its subject in the users subtree has "disabled" true, or it names the
\* reserved admin id and ADMIN_DISABLED is set
DisabledAccount(req) ==
  IF IsReserved(req.tok.user_id) THEN ADMIN_DISABLED
  ELSE \E u \in Matches(users, req.tok.sub) : "disabled" \in DOMAIN u /\ u.disabled

\* C32: a request to a route that depends on get_current_active_user, bearing
\* a valid token of a disabled account, is answered 400 'Inactive user' and
\* its handler does not run.
C32_InactiveRejected ==
  (/\ areq.pc = "done"
   /\ DepOf(areq.path) = "active"
   /\ areq.decoded = "ok"
   /\ areq.user # NoUser
   /\ DisabledAccount(areq))
  => (areq.resp = Inactive400 /\ ~areq.ran)

\* C33: the response of forgot-password does not tell whether the email is
\* registered: a finished request for a registered email and a finished
\* request for an unregistered one have the same status and body, whatever
\* became of the store read and of the outbound email.
C33_ForgotTellsNothing ==
  \A r, q \in DOMAIN pwreq :
    (/\ pwreq[r].op = "forgot" /\ pwreq[r].pc = "done"
     /\ pwreq[q].op = "forgot" /\ pwreq[q].pc = "done"
     /\ pwreq[r].email = Pat.email /\ pwreq[q].email # Pat.email)
    => (pwreq[r].status = pwreq[q].status /\ pwreq[r].body = pwreq[q].body)

\* C34: a reset-password call that arrives after a call with the same token
\* has succeeded, or after the token was presented past its expiry, is
\* answered 400 and stores no password.
C34_ResetTokenSingleUse ==
  \A r \in DOMAIN pwreq :
    (pwreq[r].op = "reset" /\ pwreq[r].late)
    => (pwreq[r].pc = "done" /\ pwreq[r].status = 400 /\ pwreq[r].wrote = 0)

\* a reset succeeded with a token, and a later call with the same token and
\* another password was answered 400: the record holds the first password
C34_Witness ==
  \E r, q \in DOMAIN pwreq :
    /\ q < r
    /\ pwreq[q].op = "reset" /\ pwreq[q].status = 200 /\ pwreq[q].wrote = 1
    /\ pwreq[r].op = "reset" /\ pwreq[r].late /\ pwreq[r].token = pwreq[q].token
    /\ pwreq[r].new_password # pwreq[q].new_password
    /\ pwreq[r].status = 400
    /\ \A u \in users : u.hashed_password = <<"bcrypt", pwreq[q].new_password>>

\* C35: FirebaseDataService.create never overwrites an existing item: a
\* create call that returned success did not replace an item that was in the
\* collection when its write was applied.
C35_CreateNeverOverwrites ==
  \A r \in DOMAIN dcall :
    (dcall[r].op = "create" /\ dcall[r].status = 200) => ~dcall[r].replaced

\* C36: update and delete answer not-found only when the item was absent
\* from the collection when they looked it up; a failure of the store is
\* reported as another error.
C36_NotFoundMeansAbsent ==
  \A r \in DOMAIN dcall :
    (dcall[r].op \in {"update", "delete"} /\ dcall[r].status = 404) => ~dcall[r].present

\* C40: no request of an identity whose account lacks the admin flag creates,
\* changes or deletes a record of the users subtree through the data routes.
C40_UsersSubtreeAdminOnly ==
  \A r \in DOMAIN dcall : ~dcall[r].flag => ~dcall[r].applied

\* C37: AuthMiddleware exempts exactly the paths of its exclude_paths: a
\* request without a bearer token is passed on when its path is in the list
\* and answered 401 by the middleware when it is not.
C37_ExemptExactlyExcluded ==
  (gateOn /\ areq.pc \notin {"idle", "gate"} /\ areq.hdr # "bearer")
  => ((areq.resp = Gate401) <=> (areq.path \notin exclude_paths))

\* C38: under a deployment whose credentials are valid, an operation that is
\* waiting for the store sees the client fully initialized, and a read,
\* write, update or delete on a valid path ends with its success result
\* unless its own remote call failed: none fails because another caller's
\* first use of the client was in progress.
C38_NoInitRace ==
  Healthy =>
    \A c \in Callers :
      /\ call[c].pc \in {"ref", "io"} => (fb.initialized /\ apps /\ fb.cred = "cert")
      /\ (/\ call[c].pc = "done"
          /\ call[c].op \in {"read", "write", "update", "delete"}
          /\ ReferenceOk(call[c].path)
          /\ ~Rejected(call[c].op, call[c].val))
         => \/ call[c].exc = "FirebaseError"
            \/ (call[c].exc = "none" /\ ~call[c].raised
                /\ call[c].res \in {"True", "value", "empty"})

\* a write issued while the caller that initialized the client was still
\* inside its first operation has returned True
C38_Witness ==
  \E c, d \in Callers :
    /\ call[c].pc \in {"ref", "io"} /\ ~call[c].ready0
    /\ call[d].pc = "done" /\ call[d].ready0
    /\ call[d].op = "write" /\ call[d].res = "True"

\* C39: an is_allowed call for one key leaves the bucket of every other key
\* as it was, and the first call of a key is allowed whatever the traffic of
\* the other keys has been.
C39_BucketsIndependent ==
  /\ [][\A r \in Reqs :
          (rpc[r] = "rate_limit" /\ rpc'[r] # "rate_limit") =>
             \A k \in Keys \ {rkey[r]} : token_bucket'[k] = token_bucket[k]]_vars
  /\ [](\A k \in Keys : Len(hist[k]) >= 1 => hist[k][1].ok)

\* one client has been denied, and the first request of another client,
\* made no earlier, was allowed from a full bucket
C39_Witness ==
  \E k, j \in Keys :
    /\ k # j
    /\ Len(hist[k]) >= 2 /\ ~hist[k][Len(hist[k])].ok
    /\ Len(hist[j]) = 1 /\ hist[j][1].ok
    /\ hist[j][1].t >= hist[k][Len(hist[k])].t
    /\ hist[j][1].before = Rate * ONE

====
